---- MODULE Spec2Model ----
(***************************************************************************)
(* A model of the monetrix market-data client                             *)
(* (src/src/monetrix/api_clients/fmp_client.py and fmp_parsers.py).       *)
(*                                                                         *)
(* Python str values are TLA+ strings, read character by character with   *)
(* Len, SubSeq and \o.  Every other Python value (a decoded JSON payload, *)
(* None, a status code, a pandas Series) is a pair <<type, value>>.        *)
(***************************************************************************)
EXTENDS Integers, Sequences, FiniteSets, TLC

VARIABLES call, argument, sent, received, replies, log, outcome

vars == <<call, argument, sent, received, replies, log, outcome>>

(***************************************************************************)
(* Bounds of the model.                                                    *)
(***************************************************************************)
\* the longest list of items a provider payload carries
MaxRecords == 1

(***************************************************************************)
(* Python str operations.                                                  *)
(***************************************************************************)
Char(s, i) == SubSeq(s, i, i)

\* the characters str.strip() and str.split() treat as whitespace
Whitespace == {" ", "\t", "\n", "\r", "\f"}

UpperLetters == "ABCDEFGHIJKLMNOPQRSTUVWXYZ"
LowerLetters == "abcdefghijklmnopqrstuvwxyz"
Digits == "0123456789"
HexDigits == "0123456789ABCDEF"
\* the printable ASCII characters in code order: codes 32 (space) to 95, and
\* codes 97 to 126 (a string literal cannot hold code 96, the backquote)
PrintableLow == " !\"#$%&'()*+,-./0123456789:;<=>?@ABCDEFGHIJKLMNOPQRSTUVWXYZ[\\]^_"
PrintableHigh == "abcdefghijklmnopqrstuvwxyz{|}~"

CharsOf(s) == {Char(s, i) : i \in 1..Len(s)}

\* the least and the greatest element of a non-empty set of integers
Min(S) == CHOOSE x \in S : \A y \in S : x <= y
Max(S) == CHOOSE x \in S : \A y \in S : y <= x

\* position of character c in s, 0 when absent
IndexOf(c, s) ==
    LET at == {i \in 1..Len(s) : Char(s, i) = c} IN IF at = {} THEN 0 ELSE Min(at)

\* ord(c), as a table
OrdTable ==
    [c \in CharsOf(PrintableLow) \cup CharsOf(PrintableHigh) \cup Whitespace |->
        CASE c = "\t" -> 9
          [] c = "\n" -> 10
          [] c = "\f" -> 12
          [] c = "\r" -> 13
          [] IndexOf(c, PrintableLow) > 0 -> 31 + IndexOf(c, PrintableLow)
          [] OTHER -> 96 + IndexOf(c, PrintableHigh)]

Ord(c) == OrdTable[c]

\* chr(n) for a printable code other than 96
Chr(n) == IF n < 96 THEN Char(PrintableLow, n - 31) ELSE Char(PrintableHigh, n - 96)

LowerTable == [c \in CharsOf(UpperLetters) |-> Char(LowerLetters, IndexOf(c, UpperLetters))]
UpperTable == [c \in CharsOf(LowerLetters) |-> Char(UpperLetters, IndexOf(c, LowerLetters))]

LowerChar(c) == IF c \in DOMAIN LowerTable THEN LowerTable[c] ELSE c
UpperChar(c) == IF c \in DOMAIN UpperTable THEN UpperTable[c] ELSE c

RECURSIVE Concat(_)
\* "".join(parts), by halves
Concat(parts) ==
    IF parts = <<>> THEN ""
    ELSE IF Len(parts) = 1 THEN parts[1]
    ELSE CHOOSE joined \in
            {Concat(left) \o Concat(right) :
                left \in {SubSeq(parts, 1, Len(parts) \div 2)},
                right \in {SubSeq(parts, (Len(parts) \div 2) + 1, Len(parts))}} : TRUE

\* sep.join(parts)
Join(sep, parts) ==
    Concat([i \in 1..Len(parts) |-> IF i = 1 THEN parts[i] ELSE sep \o parts[i]])

\* str.lower()
Lower(s) == Concat([i \in 1..Len(s) |-> LowerChar(Char(s, i))])

\* str.upper()
Upper(s) == Concat([i \in 1..Len(s) |-> UpperChar(Char(s, i))])

\* the positions of s that hold no whitespace
Inked(s) == {i \in 1..Len(s) : Char(s, i) \notin Whitespace}

\* str.strip()
Strip(s) == IF Inked(s) = {} THEN "" ELSE SubSeq(s, Min(Inked(s)), Max(Inked(s)))

\* str.lstrip(c) for a single character c
LStripChar(s, c) ==
    LET other == {i \in 1..Len(s) : Char(s, i) # c}
    IN  IF other = {} THEN "" ELSE SubSeq(s, Min(other), Len(s))

\* needle in hay
Contains(hay, needle) ==
    \E i \in 0..(Len(hay) - Len(needle)) : SubSeq(hay, i + 1, i + Len(needle)) = needle

\* hay.find(needle) + 1: the first position where needle starts, 0 when absent
Find(hay, needle) ==
    LET at == {i \in 1..(Len(hay) - Len(needle) + 1) : SubSeq(hay, i, i + Len(needle) - 1) = needle}
    IN  IF at = {} THEN 0 ELSE Min(at)

\* the elements of a set of integers in increasing order
Ascending(S) ==
    LET below == [x \in S |-> Cardinality({y \in S : y < x})]
    IN  [k \in 1..Cardinality(S) |-> CHOOSE x \in S : below[x] = k - 1]

\* str.split(sep) for a one-character separator
Split(s, sep) ==
    LET cuts == Ascending({i \in 1..Len(s) : Char(s, i) = sep})
        n == Len(cuts)
    IN  [k \in 1..(n + 1) |->
            SubSeq(s, IF k = 1 THEN 1 ELSE cuts[k - 1] + 1, IF k = n + 1 THEN Len(s) ELSE cuts[k] - 1)]

\* str.split(): the maximal runs of non-whitespace characters
Words(s) ==
    LET inked == Inked(s)
        starts == Ascending({i \in inked : i = 1 \/ (i - 1) \notin inked})
        ends == Ascending({i \in inked : i = Len(s) \/ (i + 1) \notin inked})
    IN  [k \in 1..Len(starts) |-> SubSeq(s, starts[k], ends[k])]

RECURSIVE NatStr(_)
\* str(n) for n >= 0
NatStr(n) == IF n < 10 THEN Char(Digits, n + 1) ELSE NatStr(n \div 10) \o Char(Digits, (n % 10) + 1)

\* str(n) for an int
IntStr(n) == IF n < 0 THEN "-" \o NatStr(0 - n) ELSE NatStr(n)

(***************************************************************************)
(* Python values: <<type, value>>.  A float m / 10^e is <<m, e>> in        *)
(* lowest form; a dict is its items in insertion order.                    *)
(***************************************************************************)
PyNone == <<"None", <<>>>>
PyStr(s) == <<"str", s>>
PyInt(n) == <<"int", n>>
PyBool(b) == <<"bool", b>>
PyFloat(m, e) == <<"float", <<m, e>>>>
PyList(items) == <<"list", items>>
\* the int 10**e, for an e beyond the integers of the model
PyHugeInt(e) == <<"int", 0, e>>
\* what a call that raises gives in place of a value
Raised(exception) == <<"raise", exception>>
PyDict(items) == <<"dict", items>>

IsStr(x) == x[1] = "str"
IsDict(x) == x[1] = "dict"
IsList(x) == x[1] = "list"

\* key in d
DictHas(d, k) == \E i \in 1..Len(d[2]) : d[2][i][1] = k

\* d.get(k): None when the key is absent
DictGet(d, k) ==
    IF DictHas(d, k) THEN d[2][CHOOSE i \in 1..Len(d[2]) : d[2][i][1] = k][2] ELSE PyNone

\* d[k] = x: an existing key keeps its place, a new key goes last
DictSet(d, k, x) ==
    IF DictHas(d, k)
    THEN PyDict([i \in 1..Len(d[2]) |-> IF d[2][i][1] = k THEN <<k, x>> ELSE d[2][i]])
    ELSE PyDict(Append(d[2], <<k, x>>))

(***************************************************************************)
(* fmp_client.py: constants, FMPResponse, _ok, _fail.                      *)
(***************************************************************************)
ErrorCategory ==
    {"auth", "plan", "rate_limit", "not_found", "upstream",
     "network", "decode", "empty", "invalid_input", "config"}

FMP_BASE_URL == "https://financialmodelingprep.com/stable"
LEGACY_ENDPOINT_MARKER == "legacy endpoint"

FMPResponse(ok, data, category, status_code, message) ==
    [ok |-> ok, data |-> data, category |-> category,
     status_code |-> status_code, message |-> message]

_ok(data, status_code) == FMPResponse(TRUE, data, PyNone, status_code, "")

\* _fail without its category argument stored
_fail_uncategorised(category, message, status_code, data) ==
    FMPResponse(FALSE, data, PyNone, status_code, message)

_fail(category, message, status_code, data) ==
    FMPResponse(FALSE, data, PyStr(category), status_code, message)

(***************************************************************************)
(* urllib.parse as _build_url and _redact_api_key use it.                  *)
(***************************************************************************)
\* the characters quote_plus leaves as they are
QuoteSafe == CharsOf(UpperLetters) \cup CharsOf(LowerLetters) \cup CharsOf(Digits)
                \cup {"_", ".", "-", "~"}

HexByte(n) == "%" \o Char(HexDigits, (n \div 16) + 1) \o Char(HexDigits, (n % 16) + 1)

QuoteChar(c) == IF c \in QuoteSafe THEN c ELSE IF c = " " THEN "+" ELSE HexByte(Ord(c))

quote_plus(s) == Concat([i \in 1..Len(s) |-> QuoteChar(Char(s, i))])

\* urlencode(items) for a sequence of <<key, value>> strings
urlencode(items) ==
    Join("&", [i \in 1..Len(items) |-> quote_plus(items[i][1]) \o "=" \o quote_plus(items[i][2])])

HexVal(c) == IndexOf(UpperChar(c), HexDigits) - 1

IsHex(c) == Len(c) = 1 /\ IndexOf(UpperChar(c), HexDigits) > 0

RECURSIVE unquote_plus(_)
\* unquote(s.replace("+", " ")) as parse_qsl applies it to names and values
unquote_plus(s) ==
    IF s = "" THEN ""
    ELSE IF Head(s) = "+" THEN " " \o unquote_plus(Tail(s))
    ELSE IF Head(s) = "%" /\ Len(s) >= 3 /\ IsHex(Char(s, 2)) /\ IsHex(Char(s, 3))
         THEN Chr(16 * HexVal(Char(s, 2)) + HexVal(Char(s, 3))) \o unquote_plus(SubSeq(s, 4, Len(s)))
    ELSE Head(s) \o unquote_plus(Tail(s))

\* urlparse(url): the fragment starts at the first "#", the query at the first "?" before it
urlparse(url) ==
    LET h == Find(url, "#")
        nofrag == IF h = 0 THEN url ELSE SubSeq(url, 1, h - 1)
        q == Find(nofrag, "?")
    IN  [base |-> IF q = 0 THEN nofrag ELSE SubSeq(nofrag, 1, q - 1),
         query |-> IF q = 0 THEN "" ELSE SubSeq(nofrag, q + 1, Len(nofrag)),
         fragment |-> IF h = 0 THEN "" ELSE SubSeq(url, h + 1, Len(url))]

\* urlunparse(parsed)
urlunparse(parsed) ==
    parsed.base \o (IF parsed.query = "" THEN "" ELSE "?" \o parsed.query)
                \o (IF parsed.fragment = "" THEN "" ELSE "#" \o parsed.fragment)

\* parse_qsl(query, keep_blank_values=True)
parse_qsl(query) ==
    LET fields == SelectSeq(Split(query, "&"), LAMBDA nv : nv # "")
        name(nv) == IF Find(nv, "=") = 0 THEN nv ELSE SubSeq(nv, 1, Find(nv, "=") - 1)
        value(nv) == IF Find(nv, "=") = 0 THEN "" ELSE SubSeq(nv, Find(nv, "=") + 1, Len(nv))
    IN  [i \in 1..Len(fields) |-> <<unquote_plus(name(fields[i])), unquote_plus(value(fields[i]))>>]

\* the str() of a parameter value
ParamStr(x) == IF x[1] = "int" THEN IntStr(x[2]) ELSE x[2]

RECURSIVE QueryOf_none_as_text(_, _)
\* the query dict of _build_url with a None parameter written as str(None)
QueryOf_none_as_text(query, params) ==
    IF params = <<>> THEN query
    ELSE QueryOf_none_as_text(DictSet(query, Head(params)[1],
                                      IF Head(params)[2] = PyNone THEN "None"
                                      ELSE ParamStr(Head(params)[2])),
                              Tail(params))

RECURSIVE QueryOf(_, _)
\* the query dict of _build_url: apikey first, then every parameter that is not None
QueryOf(query, params) ==
    IF params = <<>> THEN query
    ELSE QueryOf(IF Head(params)[2] = PyNone THEN query
                 ELSE DictSet(query, Head(params)[1], ParamStr(Head(params)[2])),
                 Tail(params))

_build_url(endpoint, api_key, params) ==
    LET query == QueryOf(PyDict(<< <<"apikey", api_key>> >>), params)
    IN  FMP_BASE_URL \o "/" \o LStripChar(endpoint, "/") \o "?" \o urlencode(query[2])

_redact_api_key(url) ==
    LET parsed == urlparse(url)
        query_items == parse_qsl(parsed.query)
        redacted_items == [i \in 1..Len(query_items) |->
                             <<query_items[i][1],
                               IF Lower(query_items[i][1]) = "apikey" THEN "***"
                               ELSE query_items[i][2]>>]
    IN  urlunparse([parsed EXCEPT !.query = urlencode(redacted_items)])

(***************************************************************************)
(* fmp_parsers.py.                                                         *)
(***************************************************************************)
\* the dict elements of a list, in their order, each copied
DictItems(items) == PyList(SelectSeq(items, LAMBDA item : IsDict(item)))

WrapperKeys == <<"data", "results", "quotes", "historical", "symbolsList">>

\* the wrapper keys whose value in payload is a list, in probing order
WrapperHits(payload) == SelectSeq(WrapperKeys, LAMBDA key : IsList(DictGet(payload, key)))

\* records_from_payload returning None when it found no record
records_from_payload_none_when_empty(payload) ==
    LET records == IF IsList(payload) THEN DictItems(payload[2])
                   ELSE IF IsDict(payload) /\ WrapperHits(payload) # <<>>
                        THEN DictItems(DictGet(payload, Head(WrapperHits(payload)))[2])
                   ELSE PyNone
    IN  IF records = PyList(<<>>) THEN PyNone ELSE records

records_from_payload(payload) ==
    IF IsList(payload) THEN DictItems(payload[2])
    ELSE IF IsDict(payload) /\ WrapperHits(payload) # <<>>
         THEN DictItems(DictGet(payload, Head(WrapperHits(payload)))[2])
    ELSE PyNone

RECURSIVE Pow10(_)
Pow10(e) == IF e = 0 THEN 1 ELSE 10 * Pow10(e - 1)

RECURSIVE FloatOf(_, _)
\* the float m / 10^e in lowest form
FloatOf(m, e) == IF e > 0 /\ m % 10 = 0 THEN FloatOf(m \div 10, e - 1) ELSE PyFloat(m, e)

RECURSIVE DigitsVal(_)
\* the number a string of decimal digits writes ("" is 0)
DigitsVal(s) ==
    IF s = "" THEN 0
    ELSE 10 * DigitsVal(SubSeq(s, 1, Len(s) - 1)) + (IndexOf(Char(s, Len(s)), Digits) - 1)

AllDigits(s) == \A i \in 1..Len(s) : IndexOf(Char(s, i), Digits) > 0

\* float(s) for a decimal literal: an optional sign, digits and at most one
\* point, with a digit on one side of it; None stands for ValueError.  Literals
\* with an exponent, an underscore, inf or nan are not among the model's inputs.
ParseFloat(s) ==
    LET t == Strip(s)
        signed == t # "" /\ Head(t) \in {"+", "-"}
        body == IF signed THEN Tail(t) ELSE t
        p == Find(body, ".")
        whole == IF p = 0 THEN body ELSE SubSeq(body, 1, p - 1)
        frac == IF p = 0 THEN "" ELSE SubSeq(body, p + 1, Len(body))
        m == DigitsVal(whole \o frac)
    IN  IF AllDigits(whole) /\ AllDigits(frac) /\ whole \o frac # ""
        THEN FloatOf(IF signed /\ Head(t) = "-" THEN 0 - m ELSE m, Len(frac))
        ELSE PyNone

\* s.replace(c, "")
RemoveChar(s, c) == Concat([i \in 1..Len(s) |-> IF Char(s, i) = c THEN "" ELSE Char(s, i)])

\* sys.float_info.max_10_exp: float(10**e) raises OverflowError beyond it
FLOAT_MAX_10_EXP == 308

to_float(value) ==
    IF value[1] = "bool" THEN PyNone
    ELSE IF value[1] = "int" /\ Len(value) = 3
         THEN IF value[3] > FLOAT_MAX_10_EXP THEN Raised("OverflowError")
              ELSE PyFloat(1, 0 - value[3])
    ELSE IF value[1] = "int" THEN FloatOf(value[2], 0)
    ELSE IF value[1] = "float" THEN value
    ELSE IF value[1] = "str"
         THEN LET normalized == RemoveChar(RemoveChar(Strip(value[2]), "%"), ",")
              IN  IF normalized = "" THEN PyNone ELSE ParseFloat(normalized)
    ELSE PyNone

\* lines 49-54 filling symbol from ticker only
QuoteSymbolTicker_symbol_only(normalized) ==
    LET symbol == DictGet(normalized, "symbol")
        ticker == DictGet(normalized, "ticker")
    IN  IF ~IsStr(symbol) /\ IsStr(ticker) THEN DictSet(normalized, "symbol", ticker)
        ELSE normalized

\* lines 49-54: symbol and ticker fill each other
QuoteSymbolTicker(normalized) ==
    LET symbol == DictGet(normalized, "symbol")
        ticker == DictGet(normalized, "ticker")
        n1 == IF ~IsStr(symbol) /\ IsStr(ticker) THEN DictSet(normalized, "symbol", ticker)
              ELSE normalized
    IN  IF ~IsStr(ticker) /\ IsStr(symbol) THEN DictSet(n1, "ticker", symbol) ELSE n1

\* lines 56-62 moving the alternate field to changesPercentage (the field
\* it was read from is dropped)
QuotePercent_renames(normalized) ==
    LET first == DictGet(normalized, "changePercentage")
        percent_value == IF first = PyNone THEN DictGet(normalized, "changesPercent") ELSE first
        parsed_percent == to_float(percent_value)
        popped == PyDict(SelectSeq(normalized[2],
                                   LAMBDA item : item[1] \notin {"changePercentage", "changesPercent"}))
    IN  IF ~DictHas(normalized, "changesPercentage") /\ parsed_percent # PyNone
        THEN DictSet(popped, "changesPercentage", parsed_percent)
        ELSE normalized

\* lines 56-62: changesPercentage from changePercentage, else changesPercent
QuotePercent(normalized) ==
    LET first == DictGet(normalized, "changePercentage")
        percent_value == IF first = PyNone THEN DictGet(normalized, "changesPercent") ELSE first
        parsed_percent == to_float(percent_value)
    IN  IF ~DictHas(normalized, "changesPercentage") /\ parsed_percent # PyNone
        THEN DictSet(normalized, "changesPercentage", parsed_percent)
        ELSE normalized

\* lines 64-70: change from priceChange, else changes
QuoteChange(normalized) ==
    LET first == DictGet(normalized, "priceChange")
        change_value == IF first = PyNone THEN DictGet(normalized, "changes") ELSE first
        parsed_change == to_float(change_value)
    IN  IF ~DictHas(normalized, "change") /\ parsed_change # PyNone
        THEN DictSet(normalized, "change", parsed_change)
        ELSE normalized

\* lines 72-73: changes mirrors change
QuoteChanges(normalized) ==
    IF ~DictHas(normalized, "changes") /\ DictHas(normalized, "change")
    THEN DictSet(normalized, "changes", DictGet(normalized, "change"))
    ELSE normalized

\* the steps of lines 47-75 in order, each on the value the step before it left
normalize_quote_record(record) ==
    CHOOSE normalized \in
        {QuoteChanges(n3) : n3 \in
            {QuoteChange(n2) : n2 \in
                {QuotePercent(n1) : n1 \in {QuoteSymbolTicker(record)}}}} : TRUE

NameKeys == <<"companyName", "company", "shortName">>

\* the keys of NameKeys holding a non-blank string, in probing order
NameHits(normalized) ==
    SelectSeq(NameKeys,
              LAMBDA key : IsStr(DictGet(normalized, key)) /\ Strip(DictGet(normalized, key)[2]) # "")

\* lines 81-86 storing the stripped value
MoverName_stripped(normalized) ==
    IF ~DictHas(normalized, "name") /\ NameHits(normalized) # <<>>
    THEN DictSet(normalized, "name", PyStr(Strip(DictGet(normalized, Head(NameHits(normalized)))[2])))
    ELSE normalized

\* lines 81-86: name from the first company-name field
MoverName(normalized) ==
    IF ~DictHas(normalized, "name") /\ NameHits(normalized) # <<>>
    THEN DictSet(normalized, "name", DictGet(normalized, Head(NameHits(normalized))))
    ELSE normalized

\* lines 88-90: changesPercentage as a number
MoverPercent(normalized) ==
    LET percent_value == to_float(DictGet(normalized, "changesPercentage"))
    IN  IF percent_value # PyNone THEN DictSet(normalized, "changesPercentage", percent_value)
        ELSE normalized

\* lines 92-94: price as a number
MoverPrice(normalized) ==
    LET price_value == to_float(DictGet(normalized, "price"))
    IN  IF price_value # PyNone THEN DictSet(normalized, "price", price_value) ELSE normalized

normalize_mover_record(record) ==
    CHOOSE normalized \in
        {MoverPrice(n3) : n3 \in
            {MoverPercent(n2) : n2 \in
                {MoverName(n1) : n1 \in {normalize_quote_record(record)}}}} : TRUE

\* lines 102-105: ticker and symbol default to the pair
ForexPairDefaults(normalized, pair) ==
    LET n1 == IF DictHas(normalized, "ticker") THEN normalized
              ELSE DictSet(normalized, "ticker", PyStr(pair))
    IN  IF DictHas(n1, "symbol") THEN n1 ELSE DictSet(n1, "symbol", PyStr(pair))

\* lines 107-111 setting bid and ask whenever the price is a number
ForexBidAsk_overwrites(normalized) ==
    LET price_value == to_float(DictGet(normalized, "price"))
        n1 == IF price_value # PyNone THEN DictSet(normalized, "bid", price_value) ELSE normalized
    IN  IF price_value # PyNone THEN DictSet(n1, "ask", price_value) ELSE n1

\* lines 107-111: bid and ask default to the price
ForexBidAsk(normalized) ==
    LET price_value == to_float(DictGet(normalized, "price"))
        n1 == IF ~DictHas(normalized, "bid") /\ price_value # PyNone
              THEN DictSet(normalized, "bid", price_value) ELSE normalized
    IN  IF ~DictHas(n1, "ask") /\ price_value # PyNone THEN DictSet(n1, "ask", price_value) ELSE n1

normalize_forex_record(record, pair) ==
    CHOOSE normalized \in
        {ForexBidAsk(n2) : n2 \in
            {ForexPairDefaults(n1, pair) : n1 \in {normalize_quote_record(record)}}} : TRUE

normalize_indicator_timeframe(timeframe) ==
    LET normalized == Lower(Strip(timeframe))
    IN  IF normalized \in {"daily", "1day"} THEN "1day" ELSE normalized

PriceColumns == {"open", "high", "low", "close", "volume"}

\* extract_indicator_column trying the literal names before the indicator key
extract_indicator_column_literals_first(columns, indicator_key) ==
    LET candidates == <<"value", "indicator", "technicalIndicator",
                        indicator_key, Upper(indicator_key), Lower(indicator_key)>>
        inFrame(c) == \E i \in 1..Len(columns) : columns[i] = c
        found == SelectSeq(candidates, inFrame)
        fallback_columns == SelectSeq(columns, LAMBDA col : col \notin PriceColumns)
    IN  IF found # <<>> THEN PyStr(Head(found))
        ELSE IF fallback_columns # <<>> THEN PyStr(Head(fallback_columns))
        ELSE PyNone

\* extract_indicator_column on the columns of the frame, in their order
extract_indicator_column(columns, indicator_key) ==
    LET candidates == <<indicator_key, Upper(indicator_key), Lower(indicator_key),
                        "value", "indicator", "technicalIndicator">>
        inFrame(c) == \E i \in 1..Len(columns) : columns[i] = c
        found == SelectSeq(candidates, inFrame)
        fallback_columns == SelectSeq(columns, LAMBDA col : col \notin PriceColumns)
    IN  IF found # <<>> THEN PyStr(Head(found))
        ELSE IF fallback_columns # <<>> THEN PyStr(Head(fallback_columns))
        ELSE PyNone

(***************************************************************************)
(* fmp_client.py: the error classifier and the HTTP requester.             *)
(***************************************************************************)
\* the length the decode-error body snippet is cut to
BODY_SNIPPET_LIMIT == 220

\* _status_to_category with 403 missing from the auth statuses
_status_to_category_without_403(status_code) ==
    IF status_code = 402 THEN "plan"
    ELSE IF status_code = 401 THEN "auth"
    ELSE IF status_code = 429 THEN "rate_limit"
    ELSE IF status_code = 404 THEN "not_found"
    ELSE "upstream"

_status_to_category(status_code) ==
    IF status_code = 402 THEN "plan"
    ELSE IF status_code \in {401, 403} THEN "auth"
    ELSE IF status_code = 429 THEN "rate_limit"
    ELSE IF status_code = 404 THEN "not_found"
    ELSE "upstream"

ApiErrorKeys == <<"Error Message", "error", "message">>

\* the keys of ApiErrorKeys under which payload holds a non-blank string, in probing order
ApiErrorHits(payload) ==
    SelectSeq(ApiErrorKeys,
              LAMBDA key : IsStr(DictGet(payload, key)) /\ Strip(DictGet(payload, key)[2]) # "")

\* _extract_api_error_message returning the string as the provider sent it
_extract_api_error_message_unstripped(payload) ==
    IF ~IsDict(payload) THEN PyNone
    ELSE IF ApiErrorHits(payload) = <<>> THEN PyNone
    ELSE PyStr(DictGet(payload, Head(ApiErrorHits(payload)))[2])

_extract_api_error_message(payload) ==
    IF ~IsDict(payload) THEN PyNone
    ELSE IF ApiErrorHits(payload) = <<>> THEN PyNone
    ELSE PyStr(Strip(DictGet(payload, Head(ApiErrorHits(payload)))[2]))

\* _message_to_category with the credential rule ahead of the plan rule
_message_to_category_auth_first(message) ==
    LET normalized == Lower(message)
    IN  IF Contains(normalized, LEGACY_ENDPOINT_MARKER) THEN "auth"
        ELSE IF Contains(normalized, "invalid api key") \/ Contains(normalized, "unauthorized")
             THEN "auth"
        ELSE IF Contains(normalized, "subscription") \/ Contains(normalized, "upgrade") THEN "plan"
        ELSE IF Contains(normalized, "rate limit") THEN "rate_limit"
        ELSE IF Contains(normalized, "not found") THEN "not_found"
        ELSE "upstream"

_message_to_category(message) ==
    LET normalized == Lower(message)
    IN  IF Contains(normalized, LEGACY_ENDPOINT_MARKER) THEN "auth"
        ELSE IF Contains(normalized, "subscription") \/ Contains(normalized, "upgrade") THEN "plan"
        ELSE IF Contains(normalized, "invalid api key") \/ Contains(normalized, "unauthorized")
             THEN "auth"
        ELSE IF Contains(normalized, "rate limit") THEN "rate_limit"
        ELSE IF Contains(normalized, "not found") THEN "not_found"
        ELSE "upstream"

\* What requests.get(url) gave: an exception of the requests library with its
\* str(), or a response with a status code, a body text and, when the body
\* decodes as JSON, the decoded payload.
NetException(text) ==
    [kind |-> "exception", text |-> text, status_code |-> 0, json |-> FALSE, payload |-> PyNone]
NetResponse(status_code, payload) ==
    [kind |-> "response", text |-> "", status_code |-> status_code, json |-> TRUE,
     payload |-> payload]
NetUndecodable(status_code, text) ==
    [kind |-> "response", text |-> text, status_code |-> status_code, json |-> FALSE,
     payload |-> PyNone]

\* the except branch of the GET with the exception text in the message
RequestNetworkError_detailed(redacted_url, net) ==
    [resp |-> _fail("network", "Network error while contacting market data provider: " \o net.text,
                    PyNone, PyNone),
     lines |-> <<"network error url=" \o redacted_url \o ": " \o net.text>>]

\* the except branch of the GET
RequestNetworkError(redacted_url, net) ==
    [resp |-> _fail("network", "Network error while contacting market data provider.",
                    PyNone, PyNone),
     lines |-> <<"network error url=" \o redacted_url \o ": " \o net.text>>]

\* the except branch of response.json() with the body text joined but not cut
RequestDecodeError_uncut(redacted_url, net) ==
    LET status_code == net.status_code
        body_snippet == Join(" ", Words(net.text))
        category == IF status_code >= 400 THEN _status_to_category(status_code) ELSE "decode"
        base == "Received invalid JSON from market data provider."
        message ==
            IF status_code >= 400 /\ status_code = 402
            THEN "Technical indicators require a higher FMP subscription tier."
            ELSE IF status_code >= 400 /\ body_snippet # "" THEN body_snippet
            ELSE IF body_snippet # "" THEN Strip(base \o " " \o body_snippet)
            ELSE base
    IN  [resp |-> _fail(category, message, PyInt(status_code), PyNone),
         lines |-> <<"json decode error status=" \o IntStr(status_code) \o " url="
                        \o redacted_url \o " body=" \o body_snippet>>]

\* the except branch of response.json()
RequestDecodeError(redacted_url, net) ==
    LET status_code == net.status_code
        joined == Join(" ", Words(net.text))
        body_snippet == SubSeq(joined, 1, IF Len(joined) < BODY_SNIPPET_LIMIT THEN Len(joined)
                                          ELSE BODY_SNIPPET_LIMIT)
        category == IF status_code >= 400 THEN _status_to_category(status_code) ELSE "decode"
        base == "Received invalid JSON from market data provider."
        message ==
            IF status_code >= 400 /\ status_code = 402
            THEN "Technical indicators require a higher FMP subscription tier."
            ELSE IF status_code >= 400 /\ body_snippet # "" THEN body_snippet
            ELSE IF body_snippet # "" THEN Strip(base \o " " \o body_snippet)
            ELSE base
    IN  [resp |-> _fail(category, message, PyInt(status_code), PyNone),
         lines |-> <<"json decode error status=" \o IntStr(status_code) \o " url="
                        \o redacted_url \o " body=" \o body_snippet>>]

\* the part of _request_json after a successful decode, with the provider
\* message consulted whatever the status-derived category is
RequestDecoded_message_first(redacted_url, net) ==
    LET status_code == net.status_code
        payload == net.payload
        provider_error == _extract_api_error_message(payload)
        table == _status_to_category(status_code)
        category == IF provider_error # PyNone
                    THEN _message_to_category(provider_error[2]) ELSE table
        message == IF provider_error # PyNone THEN provider_error[2]
                   ELSE "Request to market data provider failed."
    IN  IF status_code >= 400 \/ provider_error # PyNone
        THEN [resp |-> _fail(category, message, PyInt(status_code), payload),
              lines |-> <<"api error category=" \o category \o " status=" \o IntStr(status_code)
                            \o " url=" \o redacted_url \o " message=" \o message>>]
        ELSE [resp |-> _ok(payload, PyInt(status_code)), lines |-> <<>>]

\* the part of _request_json after a successful decode
RequestDecoded(redacted_url, net) ==
    LET status_code == net.status_code
        payload == net.payload
        provider_error == _extract_api_error_message(payload)
        table == _status_to_category(status_code)
        category == IF provider_error # PyNone /\ table = "upstream"
                    THEN _message_to_category(provider_error[2]) ELSE table
        message == IF provider_error # PyNone THEN provider_error[2]
                   ELSE "Request to market data provider failed."
    IN  IF status_code >= 400 \/ provider_error # PyNone
        THEN [resp |-> _fail(category, message, PyInt(status_code), payload),
              lines |-> <<"api error category=" \o category \o " status=" \o IntStr(status_code)
                            \o " url=" \o redacted_url \o " message=" \o message>>]
        ELSE [resp |-> _ok(payload, PyInt(status_code)), lines |-> <<>>]

\* _request_json(url) when requests.get gave net: the FMPResponse it returns and
\* the lines it passes to _log
_request_json(url, net) ==
    LET redacted_url == _redact_api_key(url)
    IN  IF net.kind = "exception" THEN RequestNetworkError(redacted_url, net)
        ELSE IF ~net.json THEN RequestDecodeError(redacted_url, net)
        ELSE RequestDecoded(redacted_url, net)

(***************************************************************************)
(* str() of a value inside an f-string.                                    *)
(***************************************************************************)
\* repr of the float m / 10^e
FloatRepr(m, e) ==
    LET a == IF m < 0 THEN 0 - m ELSE m
        frac == NatStr(a % Pow10(e))
        pad == [i \in 1..(e - Len(frac)) |-> "0"]
    IN  (IF m < 0 THEN "-" ELSE "") \o NatStr(a \div Pow10(e)) \o "."
            \o (IF e = 0 THEN "0" ELSE Join("", pad) \o frac)

\* repr of a str without backslashes or control characters
StrRepr(s) ==
    IF Contains(s, "'") /\ ~Contains(s, "\"") THEN "\"" \o s \o "\"" ELSE "'" \o s \o "'"

RECURSIVE PyRepr(_)
PyRepr(x) ==
    CASE x[1] = "None" -> "None"
      [] x[1] = "bool" -> IF x[2] THEN "True" ELSE "False"
      [] x[1] = "int" -> IntStr(x[2])
      [] x[1] = "float" -> FloatRepr(x[2][1], x[2][2])
      [] x[1] = "str" -> StrRepr(x[2])
      [] x[1] = "list" -> "[" \o Join(", ", [i \in 1..Len(x[2]) |-> PyRepr(x[2][i])]) \o "]"
      [] x[1] = "dict" ->
            "{" \o Join(", ", [i \in 1..Len(x[2]) |->
                                 StrRepr(x[2][i][1]) \o ": " \o PyRepr(x[2][i][2])]) \o "}"

\* f"{x}"
Fmt(x) == IF x[1] = "str" THEN x[2] ELSE PyRepr(x)

(***************************************************************************)
(* fmp_client.py: format_api_error.                                        *)
(***************************************************************************)
\* the excerpt of the message format_api_error shows is cut to this length
DETAIL_LIMIT == 140

\* category_messages (lines 211-222)
CategoryMessage(category, fallback) ==
    IF category = PyStr("auth") THEN "Market data API key is invalid or unauthorized."
    ELSE IF category = PyStr("plan") THEN "Market data endpoint requires a higher FMP subscription tier."
    ELSE IF category = PyStr("rate_limit") THEN "Market data API limit reached. Try again shortly."
    ELSE IF category = PyStr("not_found") THEN "Requested market data endpoint was not found."
    ELSE IF category = PyStr("network") THEN "Network error while reaching the market data provider."
    ELSE IF category = PyStr("decode") THEN "Market data provider returned an invalid response format."
    ELSE IF category = PyStr("empty") THEN "No market data returned for this request."
    ELSE IF category = PyStr("invalid_input") THEN "Invalid input for market data request."
    ELSE IF category = PyStr("config") THEN "Market data API key is missing or invalidly configured."
    ELSE fallback

\* lines 234-242: the hints in parentheses after the message
WithHints(message, result) ==
    LET status_hint == IF result.status_code # PyNone
                       THEN <<"status " \o IntStr(result.status_code[2])>> ELSE <<>>
        detail == Join(" ", Words(result.message))
        detail_hint == IF result.message # ""
                       THEN <<SubSeq(detail, 1, Min({DETAIL_LIMIT, Len(detail)}))>> ELSE <<>>
        hints == status_hint \o detail_hint
    IN  IF hints # <<>> THEN message \o " (" \o Join("; ", hints) \o ")" ELSE message

\* format_api_error looking for the marker in the message as it is written
format_api_error_marker_as_written(result, fallback) ==
    IF result.ok THEN fallback
    ELSE IF result.category = PyStr("auth") /\ Contains(result.message, LEGACY_ENDPOINT_MARKER)
    THEN WithHints("Market data API key is unauthorized for legacy endpoints. "
                       \o "Use stable endpoint routes and verify deployed version.", result)
    ELSE WithHints(CategoryMessage(result.category, fallback), result)

format_api_error(result, fallback) ==
    IF result.ok THEN fallback
    ELSE IF result.category = PyStr("auth") /\ Contains(Lower(result.message), LEGACY_ENDPOINT_MARKER)
    THEN WithHints("Market data API key is unauthorized for legacy endpoints. "
                       \o "Use stable endpoint routes and verify deployed version.", result)
    ELSE WithHints(CategoryMessage(result.category, fallback), result)

(***************************************************************************)
(* pandas as get_technical_indicator_result uses it.                       *)
(***************************************************************************)
NaN == <<"NaN", <<>>>>
NaT == <<"NaT", <<>>>>
Timestamp(n) == <<"Timestamp", n>>

RECURSIVE AddKeys(_, _)
AddKeys(columns, items) ==
    IF items = <<>> THEN columns
    ELSE AddKeys(IF \E i \in 1..Len(columns) : columns[i] = Head(items)[1] THEN columns
                 ELSE Append(columns, Head(items)[1]),
                 Tail(items))

RECURSIVE FrameColumns(_, _)
\* the columns of pd.DataFrame(records): the keys in the order they first appear
FrameColumns(columns, records) ==
    IF records = <<>> THEN columns
    ELSE FrameColumns(AddKeys(columns, Head(records)[2]), Tail(records))

\* pd.to_datetime of one cell: an ISO date string YYYY-MM-DD, or a missing value
to_datetime(cell) ==
    IF IsStr(cell)
    THEN Timestamp(DigitsVal(SubSeq(cell[2], 1, 4)) * 10000 + DigitsVal(SubSeq(cell[2], 6, 7)) * 100
                      + DigitsVal(SubSeq(cell[2], 9, 10)))
    ELSE NaT

\* index order of sort_index: ascending, missing dates last
DateBefore(a, b) == a[1] = "Timestamp" /\ (b[1] = "NaT" \/ a[2] < b[2])

RECURSIVE InsertRow(_, _)
InsertRow(sorted, row) ==
    IF sorted = <<>> THEN <<row>>
    ELSE IF DateBefore(row[1], Head(sorted)[1]) THEN <<row>> \o sorted
    ELSE <<Head(sorted)>> \o InsertRow(Tail(sorted), row)

RECURSIVE SortRows(_)
\* a stable sort of <<date, record>> rows by date
SortRows(rows) ==
    IF rows = <<>> THEN <<>>
    ELSE InsertRow(SortRows(SubSeq(rows, 1, Len(rows) - 1)), rows[Len(rows)])

\* df.set_index("date").sort_index() of the frame of records, as rows <<date, record>>
IndexedRows(records) ==
    SortRows([i \in 1..Len(records) |-> <<to_datetime(DictGet(records[i], "date")), records[i]>>])

\* df[column] of the indexed frame
SeriesOf(rows, column) ==
    <<"Series",
      [name |-> column,
       index |-> [i \in 1..Len(rows) |-> rows[i][1]],
       values |-> [i \in 1..Len(rows) |->
                     IF DictHas(rows[i][2], column) THEN DictGet(rows[i][2], column)
                     ELSE NaN]]>>

(***************************************************************************)
(* fmp_parsers.py: normalize_historical_dataframe.  A frame is its columns *)
(* in order, its index and its rows, each row the cells under the columns. *)
(***************************************************************************)
DataFrame(columns, index, rows) == <<"DataFrame", [columns |-> columns, index |-> index, rows |-> rows]>>

CanonicalColumns == <<"open", "high", "low", "close", "volume">>

\* rename_map, as <<source, target>> in its order (lines 156-162)
RenameMap ==
    << <<"openPrice", "open">>, <<"highPrice", "high">>, <<"lowPrice", "low">>,
       <<"closePrice", "close">>, <<"tradingVolume", "volume">> >>

\* lines 163-165 copying the alternate column whether or not the frame has the target
AlternateColumns_overwriting(columns) ==
    SelectSeq(RenameMap, LAMBDA pair : \E i \in 1..Len(columns) : columns[i] = pair[1])

\* lines 163-165: the pairs of rename_map whose target is filled from the source
AlternateColumns(columns) ==
    SelectSeq(RenameMap,
              LAMBDA pair : /\ \E i \in 1..Len(columns) : columns[i] = pair[1]
                            /\ ~\E i \in 1..Len(columns) : columns[i] = pair[2])

\* line 177 with the end of the window left out
InWindow_before_end(date, start_date, end_date) ==
    date[1] = "Timestamp" /\ date[2] >= start_date /\ date[2] < end_date

\* line 177: start_ts <= index <= end_ts (a missing date compares false)
InWindow(date, start_date, end_date) ==
    date[1] = "Timestamp" /\ date[2] >= start_date /\ date[2] <= end_date

\* the frame of lines 155-189; dates are numbers yyyymmdd
HistoricalFrame(records, start_date, end_date) ==
    LET source_columns == FrameColumns(<<>>, records)
        filled == AlternateColumns(source_columns)
        source_of(column) ==
            IF \E k \in 1..Len(filled) : filled[k][2] = column
            THEN filled[CHOOSE k \in 1..Len(filled) : filled[k][2] = column][1]
            ELSE column
        columns == SelectSeq(source_columns \o [k \in 1..Len(filled) |-> filled[k][2]],
                             LAMBDA column : column # "date")
        rows == SelectSeq(IndexedRows(records), LAMBDA row : InWindow(row[1], start_date, end_date))
        zeroed == SelectSeq(CanonicalColumns,
                            LAMBDA col : ~\E i \in 1..Len(columns) : columns[i] = col)
        ordered_columns ==
            CanonicalColumns \o SelectSeq(columns, LAMBDA column :
                                              ~\E k \in 1..5 : CanonicalColumns[k] = column)
        cell(record, column) ==
            IF \E k \in 1..Len(zeroed) : zeroed[k] = column THEN PyInt(0)
            ELSE IF DictHas(record, source_of(column)) THEN DictGet(record, source_of(column))
            ELSE NaN
    IN  DataFrame(ordered_columns,
                  [i \in 1..Len(rows) |-> rows[i][1]],
                  [i \in 1..Len(rows) |->
                        [k \in 1..Len(ordered_columns) |-> cell(rows[i][2], ordered_columns[k])]])

\* normalize_historical_dataframe with on_error given: the value returned
\* and the lines passed to on_error
normalize_historical_dataframe(records, start_date, end_date, symbol) ==
    IF records = <<>> THEN [out |-> DataFrame(<<>>, <<>>, <<>>), lines |-> <<>>]
    ELSE IF ~\E i \in 1..Len(records) : DictHas(records[i], "date")
    THEN [out |-> PyNone,
          lines |-> <<"historical response missing date column symbol=" \o symbol>>]
    ELSE [out |-> HistoricalFrame(records, start_date, end_date), lines |-> <<>>]

(***************************************************************************)
(* fmp_client.py: the public entry points.  Each returns its FMPResponse   *)
(* (out) and the lines it passes to _log after those of _request_json.     *)
(***************************************************************************)
Returned(out, lines) == [out |-> out, lines |-> lines]

\* get_stock_quote after the request (lines 259-282)
StockQuoteProcess(normalized_symbol, response) ==
    LET records == records_from_payload(response.data)
    IN  IF ~response.ok THEN Returned(response, <<>>)
        ELSE IF records = PyNone /\ IsDict(response.data)
             THEN Returned(_ok(normalize_quote_record(response.data), response.status_code), <<>>)
        ELSE IF records = PyNone
             THEN Returned(_fail("upstream",
                                 "Unexpected response format for quote " \o normalized_symbol \o ".",
                                 response.status_code, response.data),
                           <<"unexpected quote response symbol=" \o normalized_symbol
                               \o " payload=" \o Fmt(response.data)>>)
        ELSE IF records[2] = <<>>
             THEN Returned(_fail("empty", "No quote data returned for " \o normalized_symbol \o ".",
                                 response.status_code, PyNone), <<>>)
        ELSE Returned(_ok(normalize_quote_record(records[2][1]), response.status_code), <<>>)

\* get_market_winners and get_market_losers after the request (lines 334-348, 360-374)
MoversProcess(label, short, response) ==
    LET records == records_from_payload(response.data)
    IN  IF ~response.ok THEN Returned(response, <<>>)
        ELSE IF records = PyNone
             THEN Returned(_fail("upstream", "Unexpected response format for market " \o label \o ".",
                                 response.status_code, response.data),
                           <<"unexpected " \o short \o " response payload=" \o Fmt(response.data)>>)
        ELSE Returned(_ok(PyList([i \in 1..Len(records[2]) |-> normalize_mover_record(records[2][i])]),
                          response.status_code), <<>>)

\* the fallback test of line 403 with plan among the categories retried
NeedsFallback_plan_too(response) ==
    ~response.ok /\ response.category[2] \in {"not_found", "upstream", "plan"}

\* whether the primary indicator response sends the fallback request (line 403)
NeedsFallback(response) == ~response.ok /\ response.category[2] \in {"not_found", "upstream"}

\* lines 412-413 without the replacement: the primary response is kept
AfterFallback_keeps_primary(response, fallback_response) == response

\* lines 412-413 with the fallback response taken whatever it is
AfterFallback_always_replaces(response, fallback_response) == fallback_response

\* the response the indicator entry point goes on with (lines 412-413)
AfterFallback(response, fallback_response) ==
    IF fallback_response.ok THEN fallback_response ELSE response

\* get_technical_indicator_result after the requests (lines 415-476)
IndicatorProcess(normalized_symbol, indicator_key, period, response) ==
    LET records == records_from_payload(response.data)
        columns == FrameColumns(<<>>, records[2])
        hasDate == \E i \in 1..Len(columns) : columns[i] = "date"
        rows == IndexedRows(records[2])
        indicator_column ==
            extract_indicator_column(SelectSeq(columns, LAMBDA c : c # "date"), indicator_key)
    IN  IF ~response.ok
        THEN Returned(response,
                      <<"indicator request failed symbol=" \o normalized_symbol \o " indicator="
                          \o indicator_key \o " category=" \o Fmt(response.category)
                          \o " status=" \o Fmt(response.status_code)>>)
        ELSE IF records = PyNone
        THEN Returned(_fail("upstream",
                            "Unexpected response format for indicator " \o indicator_key \o ".",
                            response.status_code, response.data),
                      <<"unexpected indicator response symbol=" \o normalized_symbol
                          \o " indicator=" \o indicator_key \o ": " \o Fmt(response.data)>>)
        ELSE IF records[2] = <<>>
        THEN Returned(_fail("empty",
                            "No data returned for indicator " \o indicator_key \o " period "
                                \o IntStr(period) \o ".",
                            response.status_code, PyNone),
                      <<"empty indicator response symbol=" \o normalized_symbol \o " indicator="
                          \o indicator_key \o " period=" \o IntStr(period)>>)
        ELSE IF ~hasDate
        THEN Returned(_fail("upstream",
                            "Indicator response missing date column for " \o indicator_key \o ".",
                            response.status_code, response.data),
                      <<"indicator response missing date symbol=" \o normalized_symbol
                          \o " indicator=" \o indicator_key>>)
        ELSE IF indicator_column = PyNone
        THEN Returned(_fail("upstream", "Indicator column missing for " \o indicator_key \o ".",
                            response.status_code, response.data),
                      <<"indicator column missing symbol=" \o normalized_symbol
                          \o " indicator=" \o indicator_key>>)
        ELSE Returned(_ok(SeriesOf(rows, indicator_column[2]), response.status_code), <<>>)

\* the symbols get_multiple_stock_quotes asks for (line 507)
NormalizedSymbols(symbols) ==
    LET kept == SelectSeq(symbols, LAMBDA symbol : Strip(symbol) # "")
    IN  [i \in 1..Len(kept) |-> Upper(Strip(kept[i]))]

\* get_multiple_stock_quotes after the request (lines 515-529)
MultipleQuotesProcess(symbols_str, response) ==
    LET records == records_from_payload(response.data)
    IN  IF ~response.ok THEN Returned(response, <<>>)
        ELSE IF records = PyNone
             THEN Returned(_fail("upstream",
                                 "Unexpected response format for quotes " \o symbols_str \o ".",
                                 response.status_code, response.data),
                           <<"unexpected multiple quote response symbols=" \o symbols_str \o ": "
                               \o Fmt(response.data)>>)
        ELSE Returned(_ok(PyList([i \in 1..Len(records[2]) |-> normalize_quote_record(records[2][i])]),
                          response.status_code), <<>>)

RECURSIVE StrLess(_, _)
\* a < b for str
StrLess(a, b) ==
    IF b = "" THEN FALSE
    ELSE IF a = "" THEN TRUE
    ELSE IF Head(a) = Head(b) THEN StrLess(Tail(a), Tail(b))
    ELSE Ord(Head(a)) < Ord(Head(b))

RECURSIVE SortedStrs(_)
\* sorted(set) of str
SortedStrs(set) ==
    IF set = {} THEN <<>>
    ELSE LET least == CHOOSE a \in set : \A b \in set \ {a} : StrLess(a, b)
         IN  <<least>> \o SortedStrs(set \ {least})

RECURSIVE InsertStr(_, _)
InsertStr(sorted, a) ==
    IF sorted = <<>> THEN <<a>>
    ELSE IF StrLess(a, Head(sorted)) THEN <<a>> \o sorted
    ELSE <<Head(sorted)>> \o InsertStr(Tail(sorted), a)

RECURSIVE SortedList(_)
\* sorted(list) of str
SortedList(seq) ==
    IF seq = <<>> THEN <<>> ELSE InsertStr(SortedList(SubSeq(seq, 1, Len(seq) - 1)), seq[Len(seq)])

PairKeys == <<"symbol", "ticker", "currencyPair", "pair">>

\* the pair a record of the forex list names (lines 559-563): <<pair>>, or <<>>
PairOf(record) ==
    LET hits == SelectSeq(PairKeys,
                          LAMBDA key : IsStr(DictGet(record, key)) /\ Strip(DictGet(record, key)[2]) # "")
    IN  IF hits = <<>> THEN <<>> ELSE <<Upper(Strip(DictGet(record, Head(hits))[2]))>>

\* get_forex_pairs_list after the request (lines 541-575)
ForexPairsProcess(response) ==
    LET records == records_from_payload(response.data)
        pairs == {PairOf(records[2][i])[1] : i \in {j \in 1..Len(records[2]) : PairOf(records[2][j]) # <<>>}}
        unique_pairs == SortedStrs(pairs)
        strs(seq) == PyList([i \in 1..Len(seq) |-> PyStr(seq[i])])
    IN  IF ~response.ok THEN Returned(response, <<>>)
        ELSE IF IsList(response.data) /\ \A i \in 1..Len(response.data[2]) : IsStr(response.data[2][i])
             THEN Returned(_ok(strs(SortedList([i \in 1..Len(response.data[2]) |-> response.data[2][i][2]])),
                               response.status_code), <<>>)
        ELSE IF records = PyNone
             THEN Returned(_fail("upstream", "Unexpected response format for Forex pairs list.",
                                 response.status_code, response.data),
                           <<"unexpected forex pairs response payload=" \o Fmt(response.data)>>)
        ELSE IF unique_pairs # <<>>
             THEN Returned(_ok(strs(unique_pairs), response.status_code), <<>>)
        ELSE Returned(_fail("upstream", "Could not parse Forex pair list from provider response.",
                            response.status_code, response.data),
                      <<"unable to parse forex pairs from payload=" \o Fmt(response.data)>>)

\* get_forex_quote after the request (lines 592-613)
ForexQuoteProcess(normalized_pair, response) ==
    LET records == records_from_payload(response.data)
    IN  IF ~response.ok THEN Returned(response, <<>>)
        ELSE IF records = PyNone
             THEN Returned(_fail("upstream",
                                 "Unexpected response format for Forex quote " \o normalized_pair \o ".",
                                 response.status_code, response.data),
                           <<"unexpected forex quote response pair=" \o normalized_pair
                               \o " payload=" \o Fmt(response.data)>>)
        ELSE IF records[2] = <<>>
             THEN Returned(_fail("empty", "No Forex quote data returned for " \o normalized_pair \o ".",
                                 response.status_code, PyNone), <<>>)
        ELSE Returned(_ok(PyList([i \in 1..Len(records[2]) |->
                                    normalize_forex_record(records[2][i], normalized_pair)]),
                          response.status_code), <<>>)

(***************************************************************************)
(* The callers' inputs and the provider's answers the model draws from.    *)
(***************************************************************************)
ApiKeys == {"", "K3Y"}
Symbols == {"", " ", " aapl "}
SymbolLists == {<<>>, <<" ">>, <<"aapl", " ", "msft ">>}
Periods == {0 - 1, 0, 14}
IndicatorTypes == {"", " RSI"}
Timeframes == {"Daily"}

StatusCodes == {200, 400, 401, 402, 403, 404, 429}

\* provider error strings: one per rule of _message_to_category, pairs of rules
\* in conflict, and one no rule matches
ProviderMessages ==
    {"Legacy Endpoint : please upgrade", "Special Subscription, unauthorized",
     "Please UPGRADE your plan", "Invalid API KEY. Rate limit", "Unauthorized",
     "Rate Limit reached: not found", "Not Found", "Server exploded"}

ErrorPayloads ==
    {PyDict(<< <<"Error Message", PyStr(m)>> >>) : m \in ProviderMessages}
        \cup {PyDict(<< <<"error", PyStr("  Not Found \n")>> >>),
              PyDict(<< <<"message", PyStr("Subscription required")>> >>),
              PyDict(<< <<"Error Message", PyStr("   ")>>, <<"error", PyInt(5)>>,
                        <<"message", PyStr("Upgrade")>> >>),
              PyDict(<< <<"message", PyStr("Unauthorized")>>, <<"error", PyStr("Server exploded")>> >>)}

QuoteRecord == PyDict(<< <<"symbol", PyStr("AAPL")>>, <<"price", PyFloat(100, 0)>> >>)
IndicatorRecord == PyDict(<< <<"date", PyStr("2025-01-02")>>, <<"rsi", PyFloat(52, 0)>> >>)
MoverRecord ==
    PyDict(<< <<"ticker", PyStr("EURUSD")>>, <<"changesPercent", PyStr("1.23%")>>,
              <<"companyName", PyStr("Apple")>>, <<"price", PyStr("1,234.50")>> >>)
PriceRecord == PyDict(<< <<"date", PyStr("2025-01-01")>>, <<"open", PyInt(10)>> >>)

Items == {QuoteRecord, IndicatorRecord, MoverRecord, PriceRecord, PyStr("EURUSD")}

RECURSIVE ListsUpTo(_)
\* the lists of at most n items
ListsUpTo(n) ==
    IF n = 0 THEN {<<>>}
    ELSE ListsUpTo(n - 1) \cup {Append(l, x) : l \in {k \in ListsUpTo(n - 1) : Len(k) = n - 1}, x \in Items}

DataPayloads ==
    {PyList(l) : l \in ListsUpTo(MaxRecords)}
        \cup {PyDict(<< <<"data", PyStr("none")>>, <<"historical", PyList(<<IndicatorRecord>>)>> >>),
              PyDict(<< <<"technicalIndicator", PyList(<<IndicatorRecord>>)>> >>),
              PyList(<<PyDict(<< <<"date", PyStr("2025-01-03")>>, <<"close", PyInt(10)>>,
                                 <<"value", PyFloat(15, 1)>>, <<"rsi", PyFloat(52, 0)>> >>),
                       PyDict(<< <<"date", PyStr("2025-01-02")>>, <<"rsi", PyFloat(485, 1)>>,
                                 <<"close", PyInt(9)>> >>)>>),
              QuoteRecord, PyNone, PyStr("ok")}

Payloads == ErrorPayloads \cup DataPayloads

\* a body whose whitespace-collapsed text is longer than the snippet limit
LongBody == Concat([i \in 1..8 |-> "<p>Service  temporarily unavailable</p>\n"])

BodyTexts == {"", " \n", "<html>Subscription  required</html>\n", LongBody}

\* str(exc) of the RequestException requests.get(url) raises: the text the
\* tests raise Timeout with, and the text of a connection failure, in which
\* urllib3 names the host and the path and query it was asked for
ExceptionTexts(url) ==
    {"timeout",
     "HTTPSConnectionPool(host='financialmodelingprep.com', port=443): Max retries exceeded with url: "
        \o SubSeq(url, Len("https://financialmodelingprep.com") + 1, Len(url))}

\* everything requests.get(url) can give
Network(url) ==
    {NetException(text) : text \in ExceptionTexts(url)}
        \cup {NetResponse(status_code, payload) : status_code \in StatusCodes, payload \in Payloads}
        \cup {NetUndecodable(status_code, text) : status_code \in StatusCodes, text \in BodyTexts}

(***************************************************************************)
(* The state: the last call of a function (call), the payload or record   *)
(* passed to it when it is a function of fmp_parsers.py (argument), the    *)
(* URLs it passed to requests.get (sent), what requests.get gave for each  *)
(* (received), what _request_json returned for each (replies), the lines   *)
(* passed to _log (log) and the value the function returned (outcome): an  *)
(* FMPResponse for the entry points of fmp_client.py.                      *)
(* The entry points share no state: a behaviour is one call, made from     *)
(* the initial state.                                                      *)
(***************************************************************************)
Call(fn, api_key, symbol, symbols, period, indicator_type, timeframe) ==
    [fn |-> fn, api_key |-> api_key, symbol |-> symbol, symbols |-> symbols,
     period |-> period, indicator_type |-> indicator_type, timeframe |-> timeframe]

NoCall == Call("", "", "", <<>>, 0, "", "")

Init ==
    /\ call = NoCall
    /\ argument = PyNone
    /\ sent = <<>>
    /\ received = <<>>
    /\ replies = <<>>
    /\ log = <<>>
    /\ outcome = _ok(PyNone, PyNone)

\* the entry point returns without a request
ReturnEarly(c, line, out) ==
    /\ call' = c
    /\ argument' = argument
    /\ sent' = <<>>
    /\ received' = <<>>
    /\ replies' = <<>>
    /\ log' = line
    /\ outcome' = out

\* the entry point returns after one request
ReturnAfter(c, url, net, r, done) ==
    /\ call' = c
    /\ argument' = argument
    /\ sent' = <<url>>
    /\ received' = <<net>>
    /\ replies' = <<r.resp>>
    /\ log' = r.lines \o done.lines
    /\ outcome' = done.out

\* the entry point returns after the primary and the fallback request
ReturnAfterFallback(c, url, net, r, fallback_url, fallback_net, f, done) ==
    /\ call' = c
    /\ argument' = argument
    /\ sent' = <<url, fallback_url>>
    /\ received' = <<net, fallback_net>>
    /\ replies' = <<r.resp, f.resp>>
    /\ log' = r.lines \o f.lines \o done.lines
    /\ outcome' = done.out

GetStockQuote ==
    /\ call = NoCall
    /\ \E symbol \in Symbols, api_key \in ApiKeys :
       \E c \in {Call("get_stock_quote", api_key, symbol, <<>>, 0, "", "")} :
       \E normalized_symbol \in {Upper(Strip(symbol))} :
            \/ /\ api_key = ""
               /\ ReturnEarly(c, <<"missing API key for get_stock_quote">>,
                              _fail("config", "API key was not provided.", PyNone, PyNone))
            \/ /\ api_key # ""
               /\ normalized_symbol = ""
               /\ ReturnEarly(c, <<"missing stock symbol for get_stock_quote">>,
                              _fail("invalid_input", "Stock symbol was not provided.", PyNone, PyNone))
            \/ /\ api_key # ""
               /\ normalized_symbol # ""
               /\ \E url \in {_build_url("quote", api_key, << <<"symbol", PyStr(normalized_symbol)>> >>)} :
                  \E net \in Network(url) :
                  \E r \in {_request_json(url, net)} :
                  \E done \in {StockQuoteProcess(normalized_symbol, r.resp)} :
                        ReturnAfter(c, url, net, r, done)

GetMarketWinners ==
    /\ call = NoCall
    /\ \E api_key \in ApiKeys :
       \E c \in {Call("get_market_winners", api_key, "", <<>>, 0, "", "")} :
            \/ /\ api_key = ""
               /\ ReturnEarly(c, <<"missing API key for get_market_winners">>,
                              _fail("config", "API key was not provided for market gainers.",
                                    PyNone, PyNone))
            \/ /\ api_key # ""
               /\ \E url \in {_build_url("biggest-gainers", api_key, <<>>)} :
                  \E net \in Network(url) :
                  \E r \in {_request_json(url, net)} :
                  \E done \in {MoversProcess("gainers", "gainers", r.resp)} :
                        ReturnAfter(c, url, net, r, done)

GetMarketLosers ==
    /\ call = NoCall
    /\ \E api_key \in ApiKeys :
       \E c \in {Call("get_market_losers", api_key, "", <<>>, 0, "", "")} :
            \/ /\ api_key = ""
               /\ ReturnEarly(c, <<"missing API key for get_market_losers">>,
                              _fail("config", "API key was not provided for market losers.",
                                    PyNone, PyNone))
            \/ /\ api_key # ""
               /\ \E url \in {_build_url("biggest-losers", api_key, <<>>)} :
                  \E net \in Network(url) :
                  \E r \in {_request_json(url, net)} :
                  \E done \in {MoversProcess("losers", "losers", r.resp)} :
                        ReturnAfter(c, url, net, r, done)

\* the URL of an indicator request, its period under the parameter name period_param
IndicatorUrl(api_key, indicator_key, normalized_symbol, period_param, period, normalized_timeframe) ==
    _build_url("technical-indicators/" \o indicator_key, api_key,
               << <<"symbol", PyStr(normalized_symbol)>>,
                  <<period_param, PyInt(period)>>,
                  <<"timeframe", PyStr(normalized_timeframe)>> >>)

\* the validation of line 386 without the test of the API key
MissingIndicatorParameters_key_untested(api_key, symbol, period, indicator_type) ==
    symbol = "" \/ period <= 0 \/ indicator_type = ""

\* the validation of line 386 with period 0 let through
MissingIndicatorParameters_negative_only(api_key, symbol, period, indicator_type) ==
    api_key = "" \/ symbol = "" \/ period < 0 \/ indicator_type = ""

\* the validation of get_technical_indicator_result (line 386)
MissingIndicatorParameters(api_key, symbol, period, indicator_type) ==
    api_key = "" \/ symbol = "" \/ period <= 0 \/ indicator_type = ""

GetTechnicalIndicatorResult ==
    /\ call = NoCall
    /\ \E api_key \in ApiKeys, symbol \in Symbols, period \in Periods,
          indicator_type \in IndicatorTypes, timeframe \in Timeframes :
       \E c \in {Call("get_technical_indicator_result", api_key, symbol, <<>>, period,
                      indicator_type, timeframe)} :
            \/ /\ MissingIndicatorParameters(api_key, symbol, period, indicator_type)
               /\ ReturnEarly(c, <<"missing required parameters for get_technical_indicator">>,
                              _fail("invalid_input",
                                    "Missing required parameters for indicator request.",
                                    PyNone, PyNone))
            \/ /\ ~MissingIndicatorParameters(api_key, symbol, period, indicator_type)
               /\ \E normalized_symbol \in {Upper(Strip(symbol))} :
                  \E indicator_key \in {Lower(Strip(indicator_type))} :
                  \E normalized_timeframe \in {normalize_indicator_timeframe(timeframe)} :
                  \E url \in {IndicatorUrl(api_key, indicator_key, normalized_symbol,
                                           "periodLength", period, normalized_timeframe)} :
                  \E fallback_url \in {IndicatorUrl(api_key, indicator_key, normalized_symbol,
                                                    "period", period, normalized_timeframe)} :
                  \E fallbacks \in {{<<n, _request_json(fallback_url, n)>> :
                                        n \in Network(fallback_url)}} :
                  \E net \in Network(url) :
                  \E r \in {_request_json(url, net)} :
                        \/ /\ ~NeedsFallback(r.resp)
                           /\ \E done \in {IndicatorProcess(normalized_symbol, indicator_key,
                                                            period, r.resp)} :
                                ReturnAfter(c, url, net, r, done)
                        \/ /\ NeedsFallback(r.resp)
                           /\ \E fallback \in fallbacks :
                              \E done \in {IndicatorProcess(normalized_symbol, indicator_key, period,
                                                            AfterFallback(r.resp, fallback[2].resp))} :
                                ReturnAfterFallback(c, url, net, r, fallback_url, fallback[1],
                                                    fallback[2], done)

GetMultipleStockQuotes ==
    /\ call = NoCall
    /\ \E api_key \in ApiKeys, symbols \in SymbolLists :
       \E c \in {Call("get_multiple_stock_quotes", api_key, "", symbols, 0, "", "")} :
       \E normalized_symbols \in {NormalizedSymbols(symbols)} :
            \/ /\ api_key = ""
               /\ ReturnEarly(c, <<"missing API key for get_multiple_stock_quotes">>,
                              _fail("config", "API key not provided for multiple quotes.",
                                    PyNone, PyNone))
            \/ /\ api_key # ""
               /\ normalized_symbols = <<>>
               /\ ReturnEarly(c, <<>>, _ok(PyList(<<>>), PyNone))
            \/ /\ api_key # ""
               /\ normalized_symbols # <<>>
               /\ \E symbols_str \in {Join(",", normalized_symbols)} :
                  \E url \in {_build_url("batch-quote", api_key, << <<"symbols", PyStr(symbols_str)>> >>)} :
                  \E net \in Network(url) :
                  \E r \in {_request_json(url, net)} :
                  \E done \in {MultipleQuotesProcess(symbols_str, r.resp)} :
                        ReturnAfter(c, url, net, r, done)

GetForexPairsList ==
    /\ call = NoCall
    /\ \E api_key \in ApiKeys :
       \E c \in {Call("get_forex_pairs_list", api_key, "", <<>>, 0, "", "")} :
            \/ /\ api_key = ""
               /\ ReturnEarly(c, <<"missing API key for get_forex_pairs_list">>,
                              _fail("config", "API key not provided for Forex pairs list.",
                                    PyNone, PyNone))
            \/ /\ api_key # ""
               /\ \E url \in {_build_url("forex-list", api_key, <<>>)} :
                  \E net \in Network(url) :
                  \E r \in {_request_json(url, net)} :
                  \E done \in {ForexPairsProcess(r.resp)} :
                        ReturnAfter(c, url, net, r, done)

GetForexQuote ==
    /\ call = NoCall
    /\ \E api_key \in ApiKeys, pair \in Symbols :
       \E c \in {Call("get_forex_quote", api_key, pair, <<>>, 0, "", "")} :
       \E normalized_pair \in {Upper(Strip(pair))} :
            \/ /\ api_key = ""
               /\ ReturnEarly(c, <<"missing API key for get_forex_quote">>,
                              _fail("config", "API key not provided for Forex quote.", PyNone, PyNone))
            \/ /\ api_key # ""
               /\ normalized_pair = ""
               /\ ReturnEarly(c, <<"missing pair for get_forex_quote">>,
                              _fail("invalid_input", "Forex pair was not provided.", PyNone, PyNone))
            \/ /\ api_key # ""
               /\ normalized_pair # ""
               /\ \E url \in {_build_url("quote", api_key, << <<"symbol", PyStr(normalized_pair)>> >>)} :
                  \E net \in Network(url) :
                  \E r \in {_request_json(url, net)} :
                  \E done \in {ForexQuoteProcess(normalized_pair, r.resp)} :
                        ReturnAfter(c, url, net, r, done)

Next ==
    \/ GetStockQuote
    \/ GetMarketWinners
    \/ GetMarketLosers
    \/ GetTechnicalIndicatorResult
    \/ GetMultipleStockQuotes
    \/ GetForexPairsList
    \/ GetForexQuote

Spec == Init /\ [][Next]_vars

\* get_technical_indicator, from the return of its call of
\* get_technical_indicator_result: the series, or None (lines 486-497)
GetTechnicalIndicator ==
    /\ call.fn = "get_technical_indicator_result"
    /\ \E result \in {outcome} :
            /\ call' = [call EXCEPT !.fn = "get_technical_indicator"]
            /\ outcome' = IF result.ok /\ result.data[1] \in {"Series", "DataFrame"}
                           THEN result.data
                           ELSE PyNone
    /\ UNCHANGED <<argument, sent, received, replies, log>>

\* the most columns of a frame extract_indicator_column is tried on
MaxColumns == 3

ColumnNames == {"rsi", "RSI", "Rsi", "value", "indicator", "technicalIndicator", "open", "volume", "foo"}

RECURSIVE ColumnLists(_)
\* the frames of n columns, as the column names in their order
ColumnLists(n) ==
    IF n = 0 THEN {<<>>}
    ELSE {Append(columns, name) :
            columns \in ColumnLists(n - 1),
            name \in ColumnNames}

\* extract_indicator_column called on its own: argument is df.columns,
\* call.indicator_type the indicator key
ExtractIndicatorColumn ==
    /\ call = NoCall
    /\ \E n \in 0..MaxColumns, indicator_key \in {"rsi", "Rsi", "RSI", ""} :
       \E columns \in {list \in ColumnLists(n) :
                            \A i, j \in 1..Len(list) : list[i] = list[j] => i = j} :
       \E column \in {extract_indicator_column(columns, indicator_key)} :
            /\ call' = Call("extract_indicator_column", "", "", <<>>, 0, indicator_key, "")
            /\ argument' = PyList([i \in 1..Len(columns) |-> PyStr(columns[i])])
            /\ outcome' = column
            /\ UNCHANGED <<sent, received, replies, log>>

IndicatorNext ==
    \/ ExtractIndicatorColumn
    \/ GetTechnicalIndicatorResult
    \/ GetTechnicalIndicator

\* the calls of get_technical_indicator and of extract_indicator_column
IndicatorSpec == Init /\ [][IndicatorNext]_vars

\* get_historical_price_data after the request (lines 303-322)
HistoricalProcess(normalized_symbol, start_date, end_date, response) ==
    LET records == records_from_payload(response.data)
    IN  IF ~response.ok
        THEN Returned(PyNone,
                      <<"historical request failed symbol=" \o normalized_symbol \o " category="
                          \o Fmt(response.category) \o " status=" \o Fmt(response.status_code)>>)
        ELSE IF records = PyNone
        THEN Returned(PyNone,
                      <<"unexpected historical response symbol=" \o normalized_symbol \o ": "
                          \o Fmt(response.data)>>)
        ELSE normalize_historical_dataframe(records[2], start_date, end_date, normalized_symbol)

\* get_historical_price_data: argument holds the window asked for, outcome
\* the frame or None
GetHistoricalPriceData ==
    /\ call = NoCall
    /\ \E symbol \in Symbols, api_key \in ApiKeys,
          window \in {<<20250101, 20250101>>, <<20250101, 20251231>>} :
       \E c \in {Call("get_historical_price_data", api_key, symbol, <<>>, 0, "", "")} :
       \E normalized_symbol \in {Upper(Strip(symbol))} :
            /\ call' = c
            /\ argument' = <<"args", [start_date |-> window[1], end_date |-> window[2]]>>
            /\ \/ /\ api_key = ""
                  /\ sent' = <<>> /\ received' = <<>> /\ replies' = <<>>
                  /\ log' = <<"missing API key for get_historical_price_data">>
                  /\ outcome' = PyNone
               \/ /\ api_key # ""
                  /\ normalized_symbol = ""
                  /\ sent' = <<>> /\ received' = <<>> /\ replies' = <<>>
                  /\ log' = <<"missing stock symbol for get_historical_price_data">>
                  /\ outcome' = PyNone
               \/ /\ api_key # ""
                  /\ normalized_symbol # ""
                  /\ \E url \in {_build_url("historical-price-eod/full", api_key,
                                             << <<"symbol", PyStr(normalized_symbol)>> >>)} :
                     \E net \in Network(url) :
                     \E r \in {_request_json(url, net)} :
                     \E done \in {HistoricalProcess(normalized_symbol, window[1], window[2], r.resp)} :
                            /\ sent' = <<url>>
                            /\ received' = <<net>>
                            /\ replies' = <<r.resp>>
                            /\ log' = r.lines \o done.lines
                            /\ outcome' = done.out

EntryNext ==
    \/ Next
    \/ GetHistoricalPriceData
    \/ GetTechnicalIndicator

\* the calls of every public entry point of fmp_client.py
EntrySpec == Init /\ [][EntryNext]_vars

(***************************************************************************)
(* The functions of fmp_parsers.py, and the functions of fmp_client.py and  *)
(* config.py that make no request, called on their own: argument is the    *)
(* payload or record passed (call.symbol the pair, for a forex record) and *)
(* outcome the value returned.                                             *)
(***************************************************************************)
\* a field of a record: absent, or the key with one of the values
Field(key, values) == {<<>>} \cup {<< <<key, value>> >> : value \in values}

SymbolFields ==
    {symbol \o ticker :
        symbol \in Field("symbol", {PyStr("AAPL"), PyInt(7), PyNone}),
        ticker \in Field("ticker", {PyStr("EURUSD"), PyNone})}

PercentFields ==
    {own \o first \o second :
        own \in Field("changesPercentage", {PyStr("2%")}),
        first \in Field("changePercentage", {PyNone, PyFloat(5, 1), PyStr("n/a")}),
        second \in Field("changesPercent", {PyStr("1.23%")})}

ChangeFields ==
    {own \o first \o second :
        own \in Field("change", {PyInt(3)}),
        first \in Field("priceChange", {PyStr(""), PyInt(0 - 2)}),
        second \in Field("changes", {PyStr("1,5"), PyBool(TRUE)})}

QuoteInputs ==
    {PyDict(percent \o symbols \o change) :
        percent \in PercentFields, symbols \in SymbolFields, change \in ChangeFields}

MoverInputs ==
    {PyDict(company \o name \o short \o full \o price \o percent) :
        company \in Field("company", {PyStr("Co")}),
        name \in Field("name", {PyStr("Kept"), PyNone}),
        short \in Field("shortName", {PyStr("S")}),
        full \in Field("companyName", {PyStr("  "), PyStr(" Apple Inc. "), PyInt(5)}),
        price \in Field("price", {PyStr("1,234.50")}),
        percent \in Field("changesPercentage", {PyStr("2%")}) \cup Field("changesPercent", {PyStr("1.23%")})}

ForexInputs ==
    {PyDict(ask \o symbols \o price \o bid) :
        ask \in Field("ask", {PyStr("x")}),
        symbols \in SymbolFields,
        price \in Field("price", {PyStr("1.1"), PyStr("n/a"), PyInt(3), PyNone}),
        bid \in Field("bid", {PyFloat(1, 0), PyNone})}

Pairs == {"EURUSD", ""}

\* a mapping gives each wrapper key no value, a value that is no list, an
\* empty list or a list of its own
ParserPayloads ==
    {PyList(l) : l \in ListsUpTo(MaxRecords + 1)}
        \cup {PyDict(historical \o data \o quotes \o results \o symbolsList \o other) :
                historical \in Field("historical", {PyStr("none"), PyList(<<PriceRecord, PyInt(1)>>)}),
                data \in Field("data", {PyNone, PyList(<<>>), PyList(<<PyStr("x"), QuoteRecord, MoverRecord>>)}),
                quotes \in Field("quotes", {QuoteRecord, PyList(<<QuoteRecord>>)}),
                results \in Field("results", {PyInt(0), PyList(<<IndicatorRecord>>)}),
                symbolsList \in Field("symbolsList", {PyList(<<MoverRecord>>)}),
                other \in Field("technicalIndicator", {PyList(<<IndicatorRecord>>)})}
        \cup {PyNone, PyStr("ok"), PyInt(0), PyBool(FALSE)}

\* a function returns value for the argument passed
ReturnValue(c, passed, value) ==
    /\ call' = c
    /\ argument' = passed
    /\ outcome' = value
    /\ UNCHANGED <<sent, received, replies, log>>

RecordsFromPayload ==
    /\ call = NoCall
    /\ \E payload \in ParserPayloads :
       \E records \in {records_from_payload(payload)} :
            ReturnValue(Call("records_from_payload", "", "", <<>>, 0, "", ""), payload, records)

NormalizeQuoteRecord ==
    /\ call = NoCall
    /\ \E record \in QuoteInputs :
       \E normalized \in {normalize_quote_record(record)} :
            ReturnValue(Call("normalize_quote_record", "", "", <<>>, 0, "", ""), record, normalized)

NormalizeMoverRecord ==
    /\ call = NoCall
    /\ \E record \in MoverInputs :
       \E normalized \in {normalize_mover_record(record)} :
            ReturnValue(Call("normalize_mover_record", "", "", <<>>, 0, "", ""), record, normalized)

NormalizeForexRecord ==
    /\ call = NoCall
    /\ \E record \in ForexInputs, pair \in Pairs :
       \E normalized \in {normalize_forex_record(record, pair)} :
            ReturnValue(Call("normalize_forex_record", "", pair, <<>>, 0, "", ""), record, normalized)

\* the values to_float is tried on
FloatInputs ==
    {PyBool(TRUE), PyBool(FALSE), PyNone, PyList(<<PyInt(1)>>), QuoteRecord,
     PyInt(0), PyInt(5), PyInt(0 - 7), PyFloat(25, 1), PyFloat(0, 0),
     PyHugeInt(30), PyHugeInt(FLOAT_MAX_10_EXP), PyHugeInt(FLOAT_MAX_10_EXP + 1), PyHugeInt(400)}
        \cup {PyStr(text) : text \in
                {"", " ", " \t\n", "abc", "n/a", "1,234.50", " 12% ", "1.23%", "-0.5", "+3", ".5", "7.",
                 "1.2.3", "%", ",", "-", ".", "1 2", "0", "0.0", "-0", "12abc", "1,5", "%1%0%", " -1,000.25% "}}

ToFloat ==
    /\ call = NoCall
    /\ \E value \in FloatInputs :
       \E result \in {to_float(value)} :
            ReturnValue(Call("to_float", "", "", <<>>, 0, "", ""), value, result)

HistoricalRecords ==
    {PyDict(<< <<"date", PyStr("2024-01-01")>>, <<"open", PyInt(1)>>, <<"close", PyInt(2)>> >>),
     PyDict(<< <<"vwap", PyInt(7)>>, <<"date", PyStr("2024-01-03")>>, <<"openPrice", PyInt(5)>> >>),
     PyDict(<< <<"date", PyStr("2024-01-02")>>, <<"openPrice", PyInt(4)>>, <<"open", PyInt(3)>>,
               <<"volume", PyInt(9)>> >>),
     PyDict(<< <<"tradingVolume", PyInt(10)>>, <<"openPrice", PyInt(6)>> >>),
     PyDict(<< <<"date", PyStr("2024-01-05")>>, <<"highPrice", PyInt(8)>>, <<"label", PyStr("x")>> >>)}

RECURSIVE HistoricalLists(_)
\* the lists of n different records
HistoricalLists(n) ==
    IF n = 0 THEN {<<>>}
    ELSE {Append(records, record) :
            records \in HistoricalLists(n - 1),
            record \in HistoricalRecords}

\* the windows asked for, as <<start_date, end_date>>
Windows == {<<20240102, 20240103>>, <<20240101, 20240105>>, <<20240104, 20240104>>}

\* normalize_historical_dataframe called with _log as on_error: argument
\* holds the records and the window, log what the error sink was given
NormalizeHistoricalDataframe ==
    /\ call = NoCall
    /\ \E n \in 0..(MaxRecords + 2), window \in Windows :
       \E records \in {list \in HistoricalLists(n) :
                            \A i, j \in 1..Len(list) : list[i] = list[j] => i = j} :
       \E done \in {normalize_historical_dataframe(records, window[1], window[2], "AAPL")} :
            /\ call' = Call("normalize_historical_dataframe", "", "AAPL", <<>>, 0, "", "")
            /\ argument' = <<"args", [records |-> records, start_date |-> window[1],
                                      end_date |-> window[2]]>>
            /\ outcome' = done.out
            /\ log' = done.lines
            /\ UNCHANGED <<sent, received, replies>>

\* the results format_api_error is given: a success and failures of every category
ErrorResults ==
    {_ok(PyList(<<>>), PyInt(200))}
        \cup {FMPResponse(FALSE, PyNone, PyStr(category), status_code, message) :
                category \in ErrorCategory,
                status_code \in {PyNone, PyInt(402), PyInt(0)},
                message \in {"", " ", "Subscription required", " Bad \n  gateway ",
                             "This is a Legacy Endpoint request", LongBody}}

FormatApiError ==
    /\ call = NoCall
    /\ \E result \in ErrorResults, fallback \in {"", "Could not load quotes."} :
       \E text \in {format_api_error(result, fallback)} :
            ReturnValue(Call("format_api_error", "", "", <<>>, 0, "", ""),
                        <<"args", [result |-> result, fallback |-> fallback]>>, PyStr(text))

\* the keyword parameters the entry points pass to _build_url, each absent,
\* None or a value
UrlParams ==
    {symbols \o period \o timeframe :
        symbols \in Field("symbol", {PyNone, PyStr("AAPL"), PyStr("EUR USD"), PyStr("")})
                        \cup Field("symbols", {PyStr("AAPL,MSFT")}),
        period \in Field("periodLength", {PyNone, PyInt(14)}),
        timeframe \in Field("timeframe", {PyStr("1day")})}

BuildUrl ==
    /\ call = NoCall
    /\ \E endpoint \in {"", "quote", "/batch-quote", "//technical-indicators/rsi"},
          api_key \in {"", "K3Y", "k y&x=1"}, params \in UrlParams :
       \E url \in {_build_url(endpoint, api_key, params)} :
            ReturnValue(Call("_build_url", api_key, "", <<>>, 0, "", ""),
                        <<"args", [endpoint |-> endpoint, params |-> params]>>, PyStr(url))

(***************************************************************************)
(* config.py: the secrets store is a mapping, or its read raises; the      *)
(* environment holds FMP_API_KEY as a string or not at all (None).         *)
(***************************************************************************)
\* _normalize_secret_value keeping what is between the quotes as it is
_normalize_secret_value_inner_unstripped(value) ==
    IF value = PyNone THEN PyNone
    ELSE LET normalized == Strip(Fmt(value))
             unquoted ==
                 IF /\ Len(normalized) >= 2
                    /\ Char(normalized, 1) = Char(normalized, Len(normalized))
                    /\ Char(normalized, 1) \in {"'", "\""}
                 THEN SubSeq(normalized, 2, Len(normalized) - 1)
                 ELSE normalized
         IN  IF unquoted = "" THEN PyNone ELSE PyStr(unquoted)

_normalize_secret_value(value) ==
    IF value = PyNone THEN PyNone
    ELSE LET normalized == Strip(Fmt(value))
             unquoted ==
                 IF /\ Len(normalized) >= 2
                    /\ Char(normalized, 1) = Char(normalized, Len(normalized))
                    /\ Char(normalized, 1) \in {"'", "\""}
                 THEN Strip(SubSeq(normalized, 2, Len(normalized) - 1))
                 ELSE normalized
         IN  IF unquoted = "" THEN PyNone ELSE PyStr(unquoted)

RECURSIVE SecretAt(_, _)
\* the loop of _read_secret_path (lines 28-36)
SecretAt(current, path) ==
    IF path = <<>> THEN _normalize_secret_value(current)
    ELSE IF ~IsDict(current) THEN PyNone
    ELSE IF ~DictHas(current, Head(path)) THEN PyNone
    ELSE SecretAt(DictGet(current, Head(path)), Tail(path))

_read_secret_path(secrets, path) ==
    IF secrets[1] = "raise" THEN PyNone ELSE SecretAt(secrets, path)

resolve_fmp_api_key(secrets, environ) ==
    LET key_from_flat_secret == _read_secret_path(secrets, <<"FMP_API_KEY">>)
        key_from_nested_secret == _read_secret_path(secrets, <<"fmp", "api_key">>)
    IN  IF key_from_flat_secret # PyNone THEN key_from_flat_secret
        ELSE IF key_from_nested_secret # PyNone THEN key_from_nested_secret
        ELSE _normalize_secret_value(environ)

EnvironValues ==
    {PyNone, PyStr(""), PyStr("   "), PyStr("env-key"), PyStr("  'env-key'  "),
     PyStr("\" key \""), PyStr("''"), PyStr("'"), PyStr("'k\"")}

SecretValues == (EnvironValues \ {PyNone}) \cup {PyStr("  secret-key  "), PyInt(0)}

FlatItems == {<<>>} \cup {<< <<"FMP_API_KEY", v>> >> : v \in SecretValues}

NestedItems ==
    {<<>>, << <<"fmp", PyStr("nested-key")>> >>, << <<"fmp", PyDict(<<>>)>> >>}
        \cup {<< <<"fmp", PyDict(<< <<"api_key", v>> >>)>> >> : v \in SecretValues}

SecretStores ==
    {Raised("RuntimeError")} \cup {PyDict(f \o n) : f \in FlatItems, n \in NestedItems}

\* resolve_fmp_api_key: argument holds the secrets store and the environment
\* variable it read, outcome what it returned
ResolveFmpApiKey ==
    /\ call = NoCall
    /\ \E secrets \in SecretStores, environ \in EnvironValues :
       \E key \in {resolve_fmp_api_key(secrets, environ)} :
            ReturnValue(Call("resolve_fmp_api_key", "", "", <<>>, 0, "", ""),
                        <<"args", [secrets |-> secrets, environ |-> environ]>>, key)

ParserNext ==
    \/ ToFloat
    \/ ResolveFmpApiKey
    \/ BuildUrl
    \/ FormatApiError
    \/ NormalizeHistoricalDataframe
    \/ RecordsFromPayload
    \/ NormalizeQuoteRecord
    \/ NormalizeMoverRecord
    \/ NormalizeForexRecord

ParserSpec == Init /\ [][ParserNext]_vars

(***************************************************************************)
(* The properties.  received[i] is what requests.get gave for the i-th     *)
(* request of the call, replies[i] what _request_json returned for it.     *)
(***************************************************************************)

\* C1: for every response whose body decodes as JSON and whose status is
\* >= 400, _request_json returns a failure whose category is plan for 402,
\* auth for 401 and 403, rate_limit for 429, not_found for 404, and upstream
\* for every other status unless the provider's error message holds one of
\* the refinement keywords (and then one of auth, plan, rate_limit, not_found).
C1_StatusCategoryTable ==
    \A i \in 1..Len(received) :
        (received[i].kind = "response" /\ received[i].json /\ received[i].status_code >= 400) =>
            LET status == received[i].status_code
                payload == received[i].payload
                keyword(text) ==
                    \E k \in {"legacy endpoint", "subscription", "upgrade", "invalid api key",
                              "unauthorized", "rate limit", "not found"} : Contains(Lower(text), k)
                refined ==
                    /\ IsDict(payload)
                    /\ \E key \in {"Error Message", "error", "message"} :
                          /\ IsStr(DictGet(payload, key))
                          /\ keyword(DictGet(payload, key)[2])
            IN  /\ ~replies[i].ok
                /\ replies[i].category =
                      IF status = 402 THEN PyStr("plan")
                      ELSE IF status = 401 \/ status = 403 THEN PyStr("auth")
                      ELSE IF status = 429 THEN PyStr("rate_limit")
                      ELSE IF status = 404 THEN PyStr("not_found")
                      ELSE IF ~refined THEN PyStr("upstream")
                      ELSE replies[i].category
                /\ replies[i].category[2] \in {"auth", "plan", "rate_limit", "not_found", "upstream"}

\* a 403 with a JSON body was classified auth
C1_Witness ==
    \E i \in 1..Len(received) :
        /\ received[i].kind = "response" /\ received[i].json
        /\ received[i].status_code = 403
        /\ replies[i] = [ok |-> FALSE, data |-> received[i].payload, category |-> PyStr("auth"),
                         status_code |-> PyInt(403), message |-> replies[i].message]

\* C2: whenever the decoded body is a mapping with a non-blank string under
\* 'Error Message', 'error' or 'message', _request_json returns a failure,
\* even for status 200, that keeps the received status code, has as message
\* the first such string in that key order (without its surrounding
\* whitespace) and carries the decoded payload as data; a body with no such
\* string and a status < 400 is a success carrying the payload and the status.
C2_ProviderErrorIsFailure ==
    \A i \in 1..Len(received) :
        (received[i].kind = "response" /\ received[i].json) =>
            LET status == received[i].status_code
                payload == received[i].payload
                held(key) ==
                    /\ IsDict(payload)
                    /\ IsStr(DictGet(payload, key))
                    /\ \E j \in 1..Len(DictGet(payload, key)[2]) :
                          Char(DictGet(payload, key)[2], j) \notin {" ", "\t", "\n", "\r", "\f"}
                first == IF held("Error Message") THEN "Error Message"
                         ELSE IF held("error") THEN "error" ELSE "message"
            IN  IF held("Error Message") \/ held("error") \/ held("message")
                THEN /\ ~replies[i].ok
                     /\ replies[i].status_code = PyInt(status)
                     /\ replies[i].message = Strip(DictGet(payload, first)[2])
                     /\ replies[i].data = payload
                ELSE status < 400 =>
                        replies[i] = [ok |-> TRUE, data |-> payload, category |-> PyNone,
                                      status_code |-> PyInt(status), message |-> ""]

\* a status 200 body whose 'error' string has surrounding whitespace was
\* returned as a failure with status 200 and the payload
C2_Witness ==
    \E i \in 1..Len(received) :
        /\ received[i].kind = "response" /\ received[i].json
        /\ received[i].status_code = 200
        /\ received[i].payload = PyDict(<< <<"error", PyStr("  Not Found \n")>> >>)
        /\ ~replies[i].ok
        /\ replies[i].status_code = PyInt(200)
        /\ replies[i].message = "Not Found"
        /\ replies[i].data = received[i].payload

\* C3: for the statuses 401, 403, 402, 429 and 404 the failure category is
\* the table's category whatever the provider message says; the message
\* decides the category only when the status gives upstream.
C3_StatusBeatsMessage ==
    \A i \in 1..Len(received) :
        (/\ received[i].kind = "response" /\ received[i].json
         /\ _extract_api_error_message(received[i].payload) # PyNone) =>
            LET status == received[i].status_code
                specific == [c \in {401, 403} |-> "auth"] @@ (402 :> "plan")
                                @@ (429 :> "rate_limit") @@ (404 :> "not_found")
            IN  IF status \in DOMAIN specific
                THEN replies[i].category = PyStr(specific[status])
                ELSE replies[i].category = PyStr(_message_to_category(replies[i].message))

\* a 404 whose body says "Subscription required" stayed not_found
C3_Witness ==
    \E i \in 1..Len(received) :
        /\ received[i].kind = "response" /\ received[i].json
        /\ received[i].status_code = 404
        /\ received[i].payload = PyDict(<< <<"message", PyStr("Subscription required")>> >>)
        /\ replies[i].category = PyStr("not_found")
        /\ replies[i].message = "Subscription required"

\* C4: when the status gives upstream and the body carries a provider
\* message, the category is that of the first rule the message matches,
\* letter case ignored, in the order: 'legacy endpoint' -> auth;
\* 'subscription' or 'upgrade' -> plan; 'invalid api key' or 'unauthorized'
\* -> auth; 'rate limit' -> rate_limit; 'not found' -> not_found; no rule ->
\* upstream.
C4_FirstMatchingRule ==
    \A i \in 1..Len(received) :
        (/\ received[i].kind = "response" /\ received[i].json
         /\ received[i].status_code \notin {401, 402, 403, 404, 429}
         /\ _extract_api_error_message(received[i].payload) # PyNone) =>
            LET text == Lower(_extract_api_error_message(received[i].payload)[2])
            IN  replies[i].category =
                    IF Contains(text, "legacy endpoint") THEN PyStr("auth")
                    ELSE IF Contains(text, "subscription") THEN PyStr("plan")
                    ELSE IF Contains(text, "upgrade") THEN PyStr("plan")
                    ELSE IF Contains(text, "invalid api key") THEN PyStr("auth")
                    ELSE IF Contains(text, "unauthorized") THEN PyStr("auth")
                    ELSE IF Contains(text, "rate limit") THEN PyStr("rate_limit")
                    ELSE IF Contains(text, "not found") THEN PyStr("not_found")
                    ELSE PyStr("upstream")

\* a status 200 message matching both the plan rule and the credential rule,
\* in capitals, was classified plan
C4_Witness ==
    \E i \in 1..Len(received) :
        /\ received[i].kind = "response" /\ received[i].json
        /\ received[i].status_code = 200
        /\ received[i].payload =
              PyDict(<< <<"Error Message", PyStr("Special Subscription, unauthorized")>> >>)
        /\ replies[i].category = PyStr("plan")

\* C5: every FMPResponse returned by _request_json and by the entry points
\* has no category when ok and one of the ten categories when not ok; a
\* failure carries a payload only if a decodable body was received, and
\* network, decode, config and invalid_input failures carry none.
C5_ResponseShape ==
    LET shaped(response) ==
            /\ response.ok => response.category = PyNone
            /\ ~response.ok =>
                  /\ response.category[1] = "str"
                  /\ response.category[2] \in
                        {"auth", "plan", "rate_limit", "not_found", "upstream",
                         "network", "decode", "empty", "invalid_input", "config"}
                  /\ response.category[2] \in {"network", "decode", "config", "invalid_input"}
                        => response.data = PyNone
    IN  /\ call # NoCall => shaped(outcome)
        /\ (~outcome.ok /\ outcome.data # PyNone) =>
                \E i \in 1..Len(received) : received[i].json /\ received[i].payload = outcome.data
        /\ \A i \in 1..Len(replies) :
                /\ shaped(replies[i])
                /\ (~replies[i].ok /\ replies[i].data # PyNone) =>
                        received[i].json /\ received[i].payload = replies[i].data

\* an entry point returned a failure that carries the decoded body it received
C5_Witness ==
    /\ call.fn = "get_market_winners"
    /\ Len(received) = 1
    /\ ~outcome.ok
    /\ outcome.category = PyStr("upstream")
    /\ outcome.data # PyNone
    /\ received[1].json /\ received[1].status_code = 200
    /\ replies[1].ok

\* C6: in get_technical_indicator_result, when the primary request (with
\* periodLength) fails with not_found or upstream, exactly one more request
\* is made, to the same URL but for the parameter name period in place of
\* periodLength (same symbol, period value and timeframe); when that request
\* succeeds its payload is the one processed, and the primary failure is not
\* what the caller gets.
C6_FallbackOnce ==
    (/\ call.fn = "get_technical_indicator_result"
     /\ Len(replies) >= 1
     /\ ~replies[1].ok
     /\ replies[1].category \in {PyStr("not_found"), PyStr("upstream")}) =>
        LET at == Find(sent[1], "periodLength=")
            before == SubSeq(sent[1], 1, at - 1)
            after == SubSeq(sent[1], at + Len("periodLength="), Len(sent[1]))
        IN  /\ Len(sent) = 2 /\ Len(replies) = 2
            /\ at > 0
            /\ sent[2] = before \o "period=" \o after
            /\ Find(after, IntStr(call.period) \o "&timeframe=") = 1
            /\ ~Contains(sent[2], "periodLength")
            /\ replies[2].ok =>
                  /\ outcome # replies[1]
                  /\ outcome = IndicatorProcess(Upper(Strip(call.symbol)),
                                                Lower(Strip(call.indicator_type)),
                                                call.period, replies[2]).out

\* a 404 on the primary request was followed by a successful fallback
\* request, and the caller got the series of the fallback payload
C6_Witness ==
    /\ call.fn = "get_technical_indicator_result"
    /\ Len(sent) = 2
    /\ received[1].status_code = 404 /\ received[1].kind = "response"
    /\ replies[1].category = PyStr("not_found")
    /\ Contains(sent[1], "&periodLength=14&") /\ Contains(sent[2], "&period=14&")
    /\ received[2].payload = PyList(<<IndicatorRecord>>)
    /\ replies[2].ok
    /\ outcome.ok
    /\ outcome.data[1] = "Series"

\* C7: in get_technical_indicator_result, when the primary request fails
\* with a category other than not_found and upstream the primary failure is
\* returned and no fallback request is made; none is made either when the
\* primary request succeeds.
C7_NoFallbackOtherwise ==
    (/\ call.fn = "get_technical_indicator_result"
     /\ Len(replies) >= 1
     /\ replies[1].ok \/ replies[1].category \notin {PyStr("not_found"), PyStr("upstream")}) =>
        /\ Len(sent) = 1 /\ Len(replies) = 1
        /\ ~replies[1].ok => outcome = replies[1]

\* a 402 on the primary request was returned as it was, after one request
C7_Witness ==
    /\ call.fn = "get_technical_indicator_result"
    /\ Len(sent) = 1 /\ Len(replies) = 1
    /\ received[1].kind = "response" /\ received[1].status_code = 402
    /\ replies[1].category = PyStr("plan")
    /\ outcome = replies[1]

\* C8: get_technical_indicator_result called with an empty credential, an
\* empty symbol, a period <= 0 or an empty indicator key returns an
\* invalid_input failure and makes no request.
C8_IndicatorValidation ==
    (/\ call.fn = "get_technical_indicator_result"
     /\ \/ call.api_key = ""
        \/ call.symbol = ""
        \/ call.period <= 0
        \/ call.indicator_type = "") =>
        /\ outcome.ok = FALSE
        /\ outcome.category = PyStr("invalid_input")
        /\ sent = <<>>
        /\ received = <<>>

\* a call with period 0 and everything else given was refused without a request
C8_Witness ==
    /\ call.fn = "get_technical_indicator_result"
    /\ call.api_key # "" /\ call.symbol # "" /\ call.indicator_type # ""
    /\ call.period = 0
    /\ outcome.category = PyStr("invalid_input")
    /\ sent = <<>>

\* C9: the credential is never written to the log: whatever the entry point
\* and the outcome of its requests, no line passed to _log contains the api
\* key.
C9_CredentialNeverLogged ==
    call.api_key # "" => \A i \in 1..Len(log) : ~Contains(log[i], call.api_key)

\* C10: when the GET raises a RequestException, _request_json returns a
\* failure with category network, no status code, no payload and the fixed
\* message, in which the exception text does not appear; the entry point
\* returns a failure instead of raising.
C10_TransportFailure ==
    \A i \in 1..Len(received) :
        received[i].kind = "exception" =>
            /\ replies[i] = [ok |-> FALSE, data |-> PyNone, category |-> PyStr("network"),
                             status_code |-> PyNone,
                             message |-> "Network error while contacting market data provider."]
            /\ ~Contains(replies[i].message, received[i].text)
            /\ ~outcome.ok
            /\ i = 1 => outcome = replies[1]

\* a connection failure whose text names the URL was returned as the
\* network failure
C10_Witness ==
    /\ call.fn = "get_stock_quote"
    /\ Len(received) = 1
    /\ received[1].kind = "exception"
    /\ Contains(received[1].text, "Max retries exceeded")
    /\ outcome.category = PyStr("network")
    /\ outcome.status_code = PyNone

\* C11 as claimed: when the body does not decode as JSON, _request_json
\* returns a failure that keeps the status code, with category decode for a
\* status < 400 and the table's category for a status >= 400; for 402 the
\* message is the fixed subscription-tier text, and for any other status
\* >= 400 with a non-empty body the message is the body with its whitespace
\* collapsed, cut to 220 characters.
C11_DecodeFailure_NonEmptyBody ==
    \A i \in 1..Len(received) :
        (received[i].kind = "response" /\ ~received[i].json) =>
            \E status \in {received[i].status_code}, collapsed \in {Join(" ", Words(received[i].text))} :
            \E snippet \in {SubSeq(collapsed, 1, IF Len(collapsed) < 220 THEN Len(collapsed) ELSE 220)} :
                /\ ~replies[i].ok
                /\ replies[i].status_code = PyInt(status)
                /\ replies[i].category =
                      IF status < 400 THEN PyStr("decode")
                      ELSE IF status = 402 THEN PyStr("plan")
                      ELSE IF status = 401 \/ status = 403 THEN PyStr("auth")
                      ELSE IF status = 429 THEN PyStr("rate_limit")
                      ELSE IF status = 404 THEN PyStr("not_found")
                      ELSE PyStr("upstream")
                /\ status = 402 =>
                      replies[i].message = "Technical indicators require a higher FMP subscription tier."
                /\ (status >= 400 /\ status # 402 /\ received[i].text # "") =>
                      replies[i].message = snippet

\* C11, amended: the same, the message being the collapsed body cut to 220
\* characters when the status is >= 400 and not 402 and the collapsed body is not
\* empty (the body holds a character that is not whitespace); otherwise
\* the message is the generic invalid-JSON text.
C11_DecodeFailure ==
    \A i \in 1..Len(received) :
        (received[i].kind = "response" /\ ~received[i].json) =>
            \E status \in {received[i].status_code}, collapsed \in {Join(" ", Words(received[i].text))} :
            \E inked \in {collapsed # ""}, snippet \in {SubSeq(collapsed, 1, IF Len(collapsed) < 220 THEN Len(collapsed) ELSE 220)} :
                /\ ~replies[i].ok
                /\ replies[i].status_code = PyInt(status)
                /\ replies[i].data = PyNone
                /\ replies[i].category =
                      IF status < 400 THEN PyStr("decode")
                      ELSE IF status = 402 THEN PyStr("plan")
                      ELSE IF status = 401 \/ status = 403 THEN PyStr("auth")
                      ELSE IF status = 429 THEN PyStr("rate_limit")
                      ELSE IF status = 404 THEN PyStr("not_found")
                      ELSE PyStr("upstream")
                /\ status = 402 =>
                      replies[i].message = "Technical indicators require a higher FMP subscription tier."
                /\ (status >= 400 /\ status # 402 /\ inked) =>
                      /\ replies[i].message = snippet
                      /\ Len(replies[i].message) <= 220
                /\ (status >= 400 /\ status # 402 /\ ~inked) =>
                      replies[i].message = "Received invalid JSON from market data provider."

\* a 404 whose body is longer than 220 characters once collapsed was returned
\* as not_found with the first 220 characters as message
C11_Witness ==
    \E i \in 1..Len(received) :
        /\ received[i].kind = "response" /\ ~received[i].json
        /\ received[i].status_code = 404
        /\ Len(received[i].text) > 300
        /\ replies[i].category = PyStr("not_found")
        /\ Len(replies[i].message) = 220
        /\ SubSeq(replies[i].message, 1, 23) = "<p>Service temporarily "

\* C12: for a 200 response whose payload is an empty list, get_market_winners
\* and get_market_losers return success with an empty record list and never
\* category empty, while get_stock_quote, get_multiple_stock_quotes and
\* get_forex_quote return a failure with category empty.
C12_EmptyListPayload ==
    (/\ Len(received) = 1
     /\ received[1].kind = "response" /\ received[1].json
     /\ received[1].status_code = 200
     /\ received[1].payload = PyList(<<>>)) =>
        /\ call.fn \in {"get_market_winners", "get_market_losers"} =>
              /\ outcome.ok
              /\ outcome.data = PyList(<<>>)
              /\ outcome.category # PyStr("empty")
        /\ call.fn \in {"get_stock_quote", "get_multiple_stock_quotes", "get_forex_quote"} =>
              /\ ~outcome.ok
              /\ outcome.category = PyStr("empty")

\* C13: when the request succeeded and records_from_payload returns None for
\* its payload, each of get_stock_quote, get_market_winners,
\* get_market_losers, get_technical_indicator_result,
\* get_multiple_stock_quotes, get_forex_pairs_list and get_forex_quote returns
\* a failure with category upstream that carries the payload; never a
\* success, never category empty.
C13_UnextractableIsUpstream ==
    (/\ call.fn \in {"get_stock_quote", "get_market_winners", "get_market_losers",
                     "get_technical_indicator_result", "get_multiple_stock_quotes",
                     "get_forex_pairs_list", "get_forex_quote"}
     /\ Len(replies) >= 1
     /\ replies[Len(replies)].ok
     /\ records_from_payload(replies[Len(replies)].data) = PyNone) =>
        /\ ~outcome.ok
        /\ outcome.category = PyStr("upstream")
        /\ outcome.data = replies[Len(replies)].data

\* C14: when the provider answers the indicator request with status 200 and
\* a mapping that holds the indicator records (each with date and the
\* indicator's value) in a list under the key technicalIndicator,
\* get_technical_indicator returns a series, not None.
C14_NestedKeySeries ==
    (/\ call.fn = "get_technical_indicator"
     /\ Len(received) = 1
     /\ received[1].kind = "response" /\ received[1].json
     /\ received[1].status_code = 200
     /\ received[1].payload = PyDict(<< <<"technicalIndicator", PyList(<<IndicatorRecord>>)>> >>)
     /\ Lower(Strip(call.indicator_type)) = "rsi") =>
        /\ outcome # PyNone
        /\ outcome[1] \in {"Series", "DataFrame"}

\* C15: records_from_payload returns, for a list, exactly its mapping
\* elements in their order (an empty list for an empty list, not None); for
\* a mapping, the mapping elements of the value of the first of data,
\* results, quotes, historical, symbolsList whose value is a list, keys with
\* another value being passed over; and None for any other payload and for a
\* mapping none of whose wrapper keys holds a list.
C15_RecordsFromPayload ==
    call.fn = "records_from_payload" =>
        LET keys == <<"data", "results", "quotes", "historical", "symbolsList">>
            listed(n) == DictHas(argument, keys[n]) /\ DictGet(argument, keys[n])[1] = "list"
            \* records holds the mappings of items, and only them, in their order
            mappings_of(items, records) ==
                LET at == {i \in 1..Len(items) : items[i][1] = "dict"}
                IN  /\ records[1] = "list"
                    /\ Len(records[2]) = Cardinality(at)
                    /\ \A i \in at : records[2][Cardinality({j \in at : j <= i})] = items[i]
        IN  /\ argument[1] = "list" => mappings_of(argument[2], outcome)
            /\ argument = PyList(<<>>) => outcome = PyList(<<>>)
            /\ argument[1] = "dict" =>
                  /\ \A n \in 1..5 :
                        (listed(n) /\ \A m \in 1..(n - 1) : ~listed(m)) =>
                            mappings_of(DictGet(argument, keys[n])[2], outcome)
                  /\ (\A n \in 1..5 : ~listed(n)) => outcome = PyNone
            /\ argument[1] \notin {"list", "dict"} => outcome = PyNone

\* a mapping whose data is not a list and whose quotes and historical are
\* lists gave the mapping elements of quotes
C15_Witness ==
    /\ call.fn = "records_from_payload"
    /\ argument[1] = "dict"
    /\ DictGet(argument, "data") = PyNone /\ DictHas(argument, "data")
    /\ DictGet(argument, "results") = PyInt(0)
    /\ DictGet(argument, "quotes") = PyList(<<QuoteRecord>>)
    /\ DictGet(argument, "historical") = PyList(<<PriceRecord, PyInt(1)>>)
    /\ outcome = PyList(<<QuoteRecord>>)

\* C16: normalize_quote_record keeps symbol and ticker filled from each
\* other: when exactly one of them is a string in the record, both are that
\* string in the result; when both are strings they are as they were; and
\* in every result symbol is a string exactly when ticker is.
C16_SymbolTickerBackfill ==
    call.fn = "normalize_quote_record" =>
        LET symbol == DictGet(argument, "symbol")
            ticker == DictGet(argument, "ticker")
            is_str(x) == x[1] = "str"
        IN  /\ (is_str(symbol) /\ ~is_str(ticker)) =>
                  /\ DictGet(outcome, "symbol") = symbol
                  /\ DictGet(outcome, "ticker") = symbol
            /\ (~is_str(symbol) /\ is_str(ticker)) =>
                  /\ DictGet(outcome, "symbol") = ticker
                  /\ DictGet(outcome, "ticker") = ticker
            /\ (is_str(symbol) /\ is_str(ticker)) =>
                  /\ DictGet(outcome, "symbol") = symbol
                  /\ DictGet(outcome, "ticker") = ticker
            /\ is_str(DictGet(outcome, "symbol")) <=> is_str(DictGet(outcome, "ticker"))

\* a record with the string AAPL as symbol and None as ticker came back with
\* both AAPL
C16_Witness ==
    /\ call.fn = "normalize_quote_record"
    /\ DictGet(argument, "symbol") = PyStr("AAPL")
    /\ DictHas(argument, "ticker") /\ DictGet(argument, "ticker") = PyNone
    /\ DictGet(outcome, "ticker") = PyStr("AAPL")
    /\ DictGet(outcome, "symbol") = PyStr("AAPL")

C18_BackfillFromAlternates ==
    call.fn = "normalize_quote_record" =>
        LET numbers(keys) == {to_float(DictGet(argument, key)) : key \in keys} \ {PyNone}
        IN  /\ (~DictHas(argument, "changesPercentage")
                    /\ numbers({"changePercentage", "changesPercent"}) # {}) =>
                  /\ DictHas(outcome, "changesPercentage")
                  /\ DictGet(outcome, "changesPercentage") \in numbers({"changePercentage", "changesPercent"})
            /\ (~DictHas(argument, "change") /\ numbers({"priceChange", "changes"}) # {}) =>
                  /\ DictHas(outcome, "change")
                  /\ DictGet(outcome, "change") \in numbers({"priceChange", "changes"})
            /\ DictHas(outcome, "change") => DictHas(outcome, "changes")

\* C19: normalize_mover_record on a record without the key name gives name
\* the value, as it is in the record, of companyName when that is a
\* non-blank string, else of company, else of shortName; a record that has
\* the key name keeps its name.
C19_MoverName ==
    call.fn = "normalize_mover_record" =>
        LET named(key) ==
                /\ DictGet(argument, key)[1] = "str"
                /\ \E i \in 1..Len(DictGet(argument, key)[2]) :
                        Char(DictGet(argument, key)[2], i) \notin {" ", "\t", "\n", "\r", "\f"}
        IN  /\ DictHas(argument, "name") => DictGet(outcome, "name") = DictGet(argument, "name")
            /\ ~DictHas(argument, "name") =>
                  /\ named("companyName") =>
                        DictGet(outcome, "name") = DictGet(argument, "companyName")
                  /\ (~named("companyName") /\ named("company")) =>
                        DictGet(outcome, "name") = DictGet(argument, "company")
                  /\ (~named("companyName") /\ ~named("company") /\ named("shortName")) =>
                        DictGet(outcome, "name") = DictGet(argument, "shortName")

\* a record without name whose companyName has blanks around it came back
\* with that very text as name, though it has company and shortName too
C19_Witness ==
    /\ call.fn = "normalize_mover_record"
    /\ ~DictHas(argument, "name")
    /\ DictGet(argument, "companyName") = PyStr(" Apple Inc. ")
    /\ DictGet(argument, "company") = PyStr("Co")
    /\ DictGet(argument, "shortName") = PyStr("S")
    /\ DictGet(outcome, "name") = PyStr(" Apple Inc. ")

\* C20: the result of normalize_forex_record(record, pair) always has the
\* keys symbol and ticker, both the pair when the record has neither; when
\* price coerces to a number a bid and an ask the record lacks are that
\* number; and a bid or an ask the record has is returned as it was.
C20_ForexDefaults ==
    call.fn = "normalize_forex_record" =>
        LET price_value == to_float(DictGet(argument, "price"))
        IN  /\ DictHas(outcome, "symbol")
            /\ DictHas(outcome, "ticker")
            /\ (~DictHas(argument, "symbol") /\ ~DictHas(argument, "ticker")) =>
                  /\ DictGet(outcome, "symbol") = PyStr(call.symbol)
                  /\ DictGet(outcome, "ticker") = PyStr(call.symbol)
            /\ \A side \in {"bid", "ask"} :
                  /\ (price_value # PyNone /\ ~DictHas(argument, side)) =>
                        /\ DictHas(outcome, side)
                        /\ DictGet(outcome, side) = price_value
                  /\ DictHas(argument, side) => DictGet(outcome, side) = DictGet(argument, side)

\* a record with price 3 and a bid of None, without ask, symbol and ticker,
\* came back with its bid None, ask 3.0 and the pair as symbol and ticker
C20_Witness ==
    /\ call.fn = "normalize_forex_record"
    /\ call.symbol = "EURUSD"
    /\ argument = PyDict(<< <<"price", PyInt(3)>>, <<"bid", PyNone>> >>)
    /\ DictHas(outcome, "bid") /\ DictGet(outcome, "bid") = PyNone
    /\ DictGet(outcome, "ask") = PyFloat(3, 0)
    /\ DictGet(outcome, "symbol") = PyStr("EURUSD")
    /\ DictGet(outcome, "ticker") = PyStr("EURUSD")

\* C21: to_float returns None for a bool, for an empty or whitespace-only
\* string, for a string that does not parse and for a value that is neither
\* a number nor a string; the number for an int or a float; for a string the
\* number parsed after trimming and removing every % and comma (1,234.50
\* gives 1234.5).  It never gives zero for a string that does not parse and
\* it never raises.
C21_ToFloat ==
    call.fn = "to_float" =>
        /\ outcome[1] # "raise"
        /\ argument[1] \in {"bool", "None", "list", "dict"} => outcome = PyNone
        /\ argument[1] = "float" => outcome = argument
        /\ argument[1] = "int" => outcome[1] = "float"
        /\ argument \in {PyInt(5), PyInt(0 - 7)} => outcome \in {PyFloat(5, 0), PyFloat(0 - 7, 0)}
        /\ argument \in {PyStr(""), PyStr(" "), PyStr(" \t\n"), PyStr("abc"), PyStr("n/a"),
                         PyStr("1.2.3"), PyStr("%"), PyStr(","), PyStr("-"), PyStr("."),
                         PyStr("1 2"), PyStr("12abc")} => outcome = PyNone
        /\ argument = PyStr("1,234.50") => outcome = PyFloat(12345, 1)
        /\ argument = PyStr(" 12% ") => outcome = PyFloat(12, 0)
        /\ argument = PyStr(" -1,000.25% ") => outcome = PyFloat(0 - 100025, 2)
        /\ argument = PyStr("%1%0%") => outcome = PyFloat(10, 0)

\* C22: the value column of an indicator frame is the first that exists of
\* the indicator key verbatim, uppercased, lowercased, value, indicator,
\* technicalIndicator, else the first column, in column order, that is none
\* of open, high, low, close, volume; when no column qualifies
\* get_technical_indicator_result returns an upstream failure carrying the
\* payload; on success the series returned is that one column, indexed by
\* date in ascending order.
C22_IndicatorColumn ==
    LET price == {"open", "high", "low", "close", "volume"}
        \* the column the rule gives for the columns and the key, "" when none
        resolved(columns, key) ==
            LET candidates == <<key, Upper(key), Lower(key), "value", "indicator", "technicalIndicator">>
                has(c) == \E i \in 1..Len(columns) : columns[i] = c
                hits == {n \in 1..6 : has(candidates[n])}
                others == {i \in 1..Len(columns) : columns[i] \notin price}
            IN  IF hits # {} THEN candidates[CHOOSE n \in hits : \A m \in hits : n <= m]
                ELSE IF others # {} THEN columns[CHOOSE i \in others : \A j \in others : i <= j]
                ELSE ""
    IN  /\ call.fn = "extract_indicator_column" =>
              \E column \in {resolved([i \in 1..Len(argument[2]) |-> argument[2][i][2]],
                                      call.indicator_type)} :
                    outcome = IF column = "" THEN PyNone ELSE PyStr(column)
        /\ (/\ call.fn = "get_technical_indicator_result"
            /\ Len(replies) >= 1
            /\ replies[Len(replies)].ok
            /\ replies[Len(replies)].data[1] = "list"
            /\ replies[Len(replies)].data[2] # <<>>
            /\ \A i \in 1..Len(replies[Len(replies)].data[2]) :
                    /\ replies[Len(replies)].data[2][i][1] = "dict"
                    /\ DictHas(replies[Len(replies)].data[2][i], "date")) =>
              \E records \in {replies[Len(replies)].data[2]} :
              \E column \in {resolved(SelectSeq(FrameColumns(<<>>, records), LAMBDA c : c # "date"),
                                      Lower(Strip(call.indicator_type)))} :
                    /\ column = "" =>
                          /\ ~outcome.ok
                          /\ outcome.category = PyStr("upstream")
                          /\ outcome.data = replies[Len(replies)].data
                    /\ column # "" =>
                          /\ outcome.ok
                          /\ outcome.data[1] = "Series"
                          /\ outcome.data[2].name = column
                          /\ Len(outcome.data[2].index) = Len(records)
                          /\ Len(outcome.data[2].values) = Len(records)
                          /\ \A i, j \in 1..Len(records) :
                                i < j => outcome.data[2].index[i][2] <= outcome.data[2].index[j][2]
                          /\ \A i \in 1..Len(records) : \E k \in 1..Len(records) :
                                /\ outcome.data[2].index[k] = to_datetime(DictGet(records[i], "date"))
                                /\ outcome.data[2].values[k] =
                                      IF DictHas(records[i], column) THEN DictGet(records[i], column)
                                      ELSE NaN

\* two records sent latest first, with close, value and rsi, came back as the
\* rsi series, earliest first
C22_Witness ==
    /\ call.fn = "get_technical_indicator_result"
    /\ Len(received) = 1
    /\ received[1].kind = "response" /\ received[1].json
    /\ received[1].payload[1] = "list"
    /\ Len(received[1].payload[2]) = 2
    /\ DictGet(received[1].payload[2][1], "date") = PyStr("2025-01-03")
    /\ DictHas(received[1].payload[2][1], "value")
    /\ outcome.ok
    /\ outcome.data[1] = "Series"
    /\ outcome.data[2].name = "rsi"
    /\ outcome.data[2].index = <<Timestamp(20250102), Timestamp(20250103)>>
    /\ outcome.data[2].values = <<PyFloat(485, 1), PyFloat(52, 0)>>

\* C23: normalize_historical_dataframe on a non-empty record list with a
\* date field returns exactly the records whose date is in
\* [start_date, end_date], both ends included, in ascending order of date;
\* each of open, high, low, close, volume that the source has under no name
\* is 0 in every row; the columns are open, high, low, close, volume and
\* then the other source columns in their original order.
C23_HistoricalWindow ==
    (/\ call.fn = "normalize_historical_dataframe"
     /\ \E i \in 1..Len(argument[2].records) : DictHas(argument[2].records[i], "date")) =>
        \E records \in {argument[2].records}, frame \in {outcome[2]} :
        \E source \in {FrameColumns(<<>>, records)} :
            LET canonical == <<"open", "high", "low", "close", "volume">>
                alternate == <<"openPrice", "highPrice", "lowPrice", "closePrice", "tradingVolume">>
                day(i) == to_datetime(DictGet(records[i], "date"))
                inside == {i \in 1..Len(records) :
                            /\ DictHas(records[i], "date")
                            /\ argument[2].start_date <= day(i)[2]
                            /\ day(i)[2] <= argument[2].end_date}
                at(column) == CHOOSE k \in 1..Len(frame.columns) : frame.columns[k] = column
                known(name) == \E k \in 1..Len(source) : source[k] = name
            IN  /\ outcome[1] = "DataFrame"
                /\ Len(frame.index) = Cardinality(inside)
                /\ Len(frame.rows) = Cardinality(inside)
                /\ \A i, j \in 1..Len(frame.index) : i < j => frame.index[i][2] <= frame.index[j][2]
                /\ \A i \in inside : \E k \in 1..Len(frame.index) :
                        /\ frame.index[k] = day(i)
                        /\ \A f \in 1..Len(records[i][2]) :
                                records[i][2][f][1] # "date" =>
                                    frame.rows[k][at(records[i][2][f][1])] = records[i][2][f][2]
                /\ \A c \in 1..5 :
                        (~known(canonical[c]) /\ ~known(alternate[c])) =>
                            \A k \in 1..Len(frame.rows) : frame.rows[k][c] = PyInt(0)
                /\ frame.columns =
                        canonical \o SelectSeq(source, LAMBDA name :
                                                  name # "date" /\ ~\E c \in 1..5 : canonical[c] = name)

\* three records sent out of order, one before the window, came back as the
\* two of the window, earliest first, with high, low and close zero
C23_Witness ==
    /\ call.fn = "normalize_historical_dataframe"
    /\ Len(argument[2].records) = 3
    /\ argument[2].start_date = 20240102 /\ argument[2].end_date = 20240103
    /\ DictGet(argument[2].records[1], "date") = PyStr("2024-01-03")
    /\ DictGet(argument[2].records[2], "date") = PyStr("2024-01-01")
    /\ DictGet(argument[2].records[3], "date") = PyStr("2024-01-02")
    /\ outcome[1] = "DataFrame"
    /\ outcome[2].index = <<Timestamp(20240102), Timestamp(20240103)>>
    /\ outcome[2].columns = <<"open", "high", "low", "close", "volume", "vwap", "openPrice">>
    /\ outcome[2].rows[1][2] = PyInt(0)

\* C24: normalize_historical_dataframe gives an empty frame for an empty
\* record list, the error sink not being called; for a non-empty list in
\* which no record has a date it calls the error sink once and returns
\* None; and openPrice, highPrice, lowPrice, closePrice, tradingVolume give
\* the values of open, high, low, close, volume only when the source has no
\* column of that canonical name, a canonical column of the source being
\* returned as it is.
C24_EmptyAndBrokenInput ==
    call.fn = "normalize_historical_dataframe" =>
        \E records \in {argument[2].records} :
            /\ records = <<>> =>
                    /\ outcome[1] = "DataFrame"
                    /\ outcome[2].rows = <<>> /\ outcome[2].index = <<>>
                    /\ log = <<>>
            /\ (records # <<>> /\ \A i \in 1..Len(records) : ~DictHas(records[i], "date")) =>
                    /\ outcome = PyNone
                    /\ Len(log) = 1
            /\ (\E i \in 1..Len(records) : DictHas(records[i], "date")) =>
                    LET canonical == <<"open", "high", "low", "close", "volume">>
                        alternate == <<"openPrice", "highPrice", "lowPrice", "closePrice", "tradingVolume">>
                        known(name) == \E i \in 1..Len(records) : DictHas(records[i], name)
                        value(record, name) == IF DictHas(record, name) THEN DictGet(record, name) ELSE NaN
                    IN  /\ log = <<>>
                        /\ \A k \in 1..Len(outcome[2].index) : \E i \in 1..Len(records) :
                                /\ DictHas(records[i], "date")
                                /\ to_datetime(DictGet(records[i], "date")) = outcome[2].index[k]
                                /\ \A c \in 1..5 :
                                      /\ known(canonical[c]) =>
                                            outcome[2].rows[k][c] = value(records[i], canonical[c])
                                      /\ (~known(canonical[c]) /\ known(alternate[c])) =>
                                            outcome[2].rows[k][c] = value(records[i], alternate[c])

\* a record list with openPrice and tradingVolume but no date anywhere gave
\* None and one line to the error sink
C24_Witness ==
    /\ call.fn = "normalize_historical_dataframe"
    /\ Len(argument[2].records) = 1
    /\ DictHas(argument[2].records[1], "openPrice")
    /\ ~DictHas(argument[2].records[1], "date")
    /\ outcome = PyNone
    /\ log = <<"historical response missing date column symbol=AAPL">>

\* C25: format_api_error on a failure returns the message of the category
\* (the caller's fallback for upstream; the legacy-endpoint explanation when
\* the category is auth and the message holds 'legacy endpoint' in any
\* case), followed, when there is a hint, by the hints between ' (' and ')'
\* joined with '; ': 'status <code>' when there is a status code, then the
\* message with its whitespace collapsed, cut to 140 characters, when the
\* message is not empty.  (plan, 402, 'Subscription required') gives a text
\* holding 'subscription tier' and 'status 402'.
C25_FormatApiError ==
    (call.fn = "format_api_error" /\ ~argument[2].result.ok) =>
        \E result \in {argument[2].result}, fallback \in {argument[2].fallback} :
        \E collapsed \in {Join(" ", Words(result.message))} :
        \E legacy \in {Contains(Lower(result.message), "legacy endpoint")} :
            LET table == [auth |-> "Market data API key is invalid or unauthorized.",
                          plan |-> "Market data endpoint requires a higher FMP subscription tier.",
                          rate_limit |-> "Market data API limit reached. Try again shortly.",
                          not_found |-> "Requested market data endpoint was not found.",
                          network |-> "Network error while reaching the market data provider.",
                          decode |-> "Market data provider returned an invalid response format.",
                          empty |-> "No market data returned for this request.",
                          invalid_input |-> "Invalid input for market data request.",
                          config |-> "Market data API key is missing or invalidly configured.",
                          upstream |-> fallback]
                message == IF result.category = PyStr("auth") /\ legacy
                           THEN "Market data API key is unauthorized for legacy endpoints. "
                                   \o "Use stable endpoint routes and verify deployed version."
                           ELSE table[result.category[2]]
                status == IF result.status_code = PyNone THEN ""
                          ELSE "status " \o IntStr(result.status_code[2])
                detail == SubSeq(collapsed, 1, IF Len(collapsed) < 140 THEN Len(collapsed) ELSE 140)
            IN  /\ outcome[1] = "str"
                /\ (result.status_code = PyNone /\ result.message = "") => outcome[2] = message
                /\ (result.status_code # PyNone /\ result.message = "") =>
                        outcome[2] = message \o " (" \o status \o ")"
                /\ (result.status_code = PyNone /\ result.message # "") =>
                        outcome[2] = message \o " (" \o detail \o ")"
                /\ (result.status_code # PyNone /\ result.message # "") =>
                        outcome[2] = message \o " (" \o status \o "; " \o detail \o ")"
                /\ (result.category = PyStr("plan") /\ result.status_code = PyInt(402)
                        /\ result.message = "Subscription required") =>
                        /\ Contains(Lower(outcome[2]), "subscription tier")
                        /\ Contains(outcome[2], "status 402")

\* an auth failure with status 402 whose message says Legacy Endpoint gave
\* the legacy explanation with both hints
C25_Witness ==
    /\ call.fn = "format_api_error"
    /\ argument[2].result.category = PyStr("auth")
    /\ argument[2].result.status_code = PyInt(402)
    /\ argument[2].result.message = "This is a Legacy Endpoint request"
    /\ outcome = PyStr("Market data API key is unauthorized for legacy endpoints. "
                          \o "Use stable endpoint routes and verify deployed version. "
                          \o "(status 402; This is a Legacy Endpoint request)")

\* C26: the URL _build_url gives is the fixed base, a slash and the endpoint
\* without its leading slashes; its query holds apikey with the caller's
\* credential; a parameter whose value is None is left out; every other
\* parameter is there once with its value as a string, percent-encoded
\* (symbols AAPL,MSFT is symbols=AAPL%2CMSFT).
C26_BuildUrl ==
    call.fn = "_build_url" =>
        \E endpoint \in {argument[2].endpoint}, params \in {argument[2].params}, url \in {outcome[2]} :
        \E mark \in {Find(url, "?")} :
        \E items \in {parse_qsl(SubSeq(url, mark + 1, Len(url)))} :
            LET slashes == {i \in 1..Len(endpoint) : \A j \in 1..i : SubSeq(endpoint, j, j) = "/"}
                given == {i \in 1..Len(params) : params[i][2] # PyNone}
                text(value) == IF value[1] = "int" THEN IntStr(value[2]) ELSE value[2]
            IN  /\ mark > 0
                /\ SubSeq(url, 1, mark - 1) =
                        "https://financialmodelingprep.com/stable/"
                            \o SubSeq(endpoint, Cardinality(slashes) + 1, Len(endpoint))
                /\ Len(items) = 1 + Cardinality(given)
                /\ items[1] = <<"apikey", call.api_key>>
                /\ \A i \in given :
                        Cardinality({k \in 1..Len(items) :
                                        items[k] = <<params[i][1], text(params[i][2])>>}) = 1
                /\ \A i \in 1..Len(params) :
                        params[i][2] = PyNone => \A k \in 1..Len(items) : items[k][1] # params[i][1]
                /\ \A k \in 1..(Len(url) - mark) :
                        SubSeq(url, mark + k, mark + k) \notin {",", " ", "/", "?", "#"}
                /\ (\E i \in given : params[i] = <<"symbols", PyStr("AAPL,MSFT")>>) =>
                        Contains(url, "symbols=AAPL%2CMSFT")

\* a credential with a blank and an ampersand, an endpoint with two leading
\* slashes, symbols AAPL,MSFT and a periodLength of None gave the URL with
\* all of them encoded and no periodLength
C26_Witness ==
    /\ call.fn = "_build_url"
    /\ call.api_key = "k y&x=1"
    /\ argument[2].endpoint = "//technical-indicators/rsi"
    /\ argument[2].params = << <<"symbols", PyStr("AAPL,MSFT")>>, <<"periodLength", PyNone>> >>
    /\ outcome = PyStr("https://financialmodelingprep.com/stable/technical-indicators/rsi"
                          \o "?apikey=k+y%26x%3D1&symbols=AAPL%2CMSFT")

\* C27: a call of a public entry point makes at most two requests, and only
\* get_technical_indicator_result and get_technical_indicator make a second
\* one; every other entry point makes at most one, and an entry point called
\* with an empty credential makes none.
C27_RequestCount ==
    /\ Len(sent) <= 2
    /\ Len(received) = Len(sent)
    /\ Len(sent) = 2 => call.fn \in {"get_technical_indicator_result", "get_technical_indicator"}
    /\ call.fn \in {"get_stock_quote", "get_historical_price_data", "get_market_winners",
                    "get_market_losers", "get_multiple_stock_quotes", "get_forex_pairs_list",
                    "get_forex_quote"} => Len(sent) <= 1
    /\ (call # NoCall /\ call.api_key = "") => sent = <<>>

\* get_technical_indicator, called with a credential, after its second request
C27_Witness ==
    /\ call.fn = "get_technical_indicator"
    /\ call.api_key = "K3Y"
    /\ Len(sent) = 2
    /\ sent[1] # sent[2]
    /\ outcome # PyNone

\* C28: resolve_fmp_api_key returns the first usable value of the flat secret
\* FMP_API_KEY, the nested secret fmp.api_key and the environment variable
\* FMP_API_KEY, usable meaning non-empty once trimmed and rid of one pair of
\* matching surrounding quotes, and returns that trimmed, unquoted value; it
\* returns None when no source is usable, reads only the environment when
\* the secrets store raises, and never returns an empty or padded string.
C28_ResolveFmpApiKey ==
    call.fn = "resolve_fmp_api_key" =>
        LET secrets == argument[2].secrets
            raises == secrets[1] = "raise"
            nested == IF ~raises /\ DictHas(secrets, "fmp") THEN DictGet(secrets, "fmp") ELSE PyNone
            sources ==
                << IF ~raises /\ DictHas(secrets, "FMP_API_KEY")
                   THEN DictGet(secrets, "FMP_API_KEY") ELSE PyNone,
                   IF IsDict(nested) /\ DictHas(nested, "api_key")
                   THEN DictGet(nested, "api_key") ELSE PyNone,
                   argument[2].environ >>
            Quoted(t) == \E q \in {"'", "\""} :
                            Len(t) >= 2 /\ SubSeq(t, 1, 1) = q /\ SubSeq(t, Len(t), Len(t)) = q
            Value(v) == IF v = PyNone THEN ""
                        ELSE LET t == Strip(Fmt(v))
                             IN  IF Quoted(t) THEN Strip(SubSeq(t, 2, Len(t) - 1)) ELSE t
            usable == {i \in 1..3 : Value(sources[i]) # ""}
        IN  /\ usable = {} => outcome = PyNone
            /\ usable # {} =>
                    \E first \in usable :
                        /\ \A i \in usable : first <= i
                        /\ outcome = PyStr(Value(sources[first]))
            /\ raises => outcome \in {PyNone, PyStr(Value(argument[2].environ))}
            /\ outcome # PyNone =>
                    /\ IsStr(outcome)
                    /\ outcome[2] # ""
                    /\ Strip(outcome[2]) = outcome[2]

\* the flat secret is blank, the nested one a quoted key with blanks inside
\* the quotes, the environment holds another key: the nested key is returned
C28_Witness ==
    /\ call.fn = "resolve_fmp_api_key"
    /\ argument[2].secrets = PyDict(<< <<"FMP_API_KEY", PyStr("   ")>>,
                                      <<"fmp", PyDict(<< <<"api_key", PyStr("\" key \"")>> >>)>> >>)
    /\ argument[2].environ = PyStr("env-key")
    /\ outcome = PyStr("key")

\* C29: in get_technical_indicator_result, when the primary request fails
\* with not_found or upstream and the fallback request fails too, the caller
\* gets the failure of the primary request as it was (category, status code,
\* message and payload), not the failure of the fallback request.
C29_PrimaryFailureKept ==
    (/\ call.fn = "get_technical_indicator_result"
     /\ Len(replies) = 2
     /\ ~replies[1].ok
     /\ replies[1].category \in {PyStr("not_found"), PyStr("upstream")}
     /\ ~replies[2].ok) =>
        /\ outcome.ok = FALSE
        /\ outcome.category = replies[1].category
        /\ outcome.status_code = replies[1].status_code
        /\ outcome.message = replies[1].message
        /\ outcome.data = replies[1].data
        /\ replies[2] # replies[1] => outcome # replies[2]

\* a 404 on the primary request, a 402 with another message on the fallback
\* request: the caller got the not_found failure
C29_Witness ==
    /\ call.fn = "get_technical_indicator_result"
    /\ Len(replies) = 2
    /\ received[1].kind = "response" /\ received[1].status_code = 404
    /\ received[2].kind = "response" /\ received[2].status_code = 402
    /\ replies[1].category = PyStr("not_found")
    /\ replies[2].category = PyStr("plan")
    /\ replies[2].message # replies[1].message
    /\ outcome = replies[1]

\* C30: no request is made for an empty subject: in every request of
\* get_stock_quote, get_forex_quote, get_multiple_stock_quotes and
\* get_technical_indicator_result the value of the symbol or symbols query
\* parameter is not empty, and in every indicator request the indicator key
\* that ends the path is not empty; an input that is blank once trimmed is
\* rejected or answered without a request.
C30_NoEmptySubject ==
    call.fn \in {"get_stock_quote", "get_forex_quote", "get_multiple_stock_quotes",
                 "get_technical_indicator_result"} =>
        /\ \A i \in 1..Len(sent) :
            LET url == sent[i]
                mark == Find(url, "?")
                path == SubSeq(url, 1, mark - 1)
                query == "&" \o SubSeq(url, mark + 1, Len(url)) \o "&"
                Subject(name) ==
                    LET at == Find(query, "&" \o name \o "=")
                        rest == SubSeq(query, at + Len(name) + 2, Len(query))
                    IN  SubSeq(rest, 1, Find(rest, "&") - 1)
                name == IF call.fn = "get_multiple_stock_quotes" THEN "symbols" ELSE "symbol"
            IN  /\ mark > 0
                /\ Contains(query, "&" \o name \o "=")
                /\ Subject(name) # ""
                /\ call.fn = "get_technical_indicator_result" =>
                        /\ Find(path, FMP_BASE_URL \o "/technical-indicators/") = 1
                        /\ Len(path) > Len(FMP_BASE_URL \o "/technical-indicators/")
        /\ (Strip(call.symbol) = "" /\ call.fn # "get_multiple_stock_quotes") => sent = <<>>
        /\ (call.fn = "get_multiple_stock_quotes" /\ NormalizedSymbols(call.symbols) = <<>>) =>
                sent = <<>>
        /\ (call.fn = "get_technical_indicator_result" /\ Strip(call.indicator_type) = "") =>
                sent = <<>>

====
